---- MODULE Spec2Model ----
(***************************************************************************)
(* State-machine model of the pet-feeder backend (src/app.py) together     *)
(* with the command-line helpers of src/ip_management.py, run against the  *)
(* SQLite database whose tables are created by src/setup_database.py       *)
(* (feeders, logs, daily_stats, ...) or, when that script was never run,   *)
(* by init_db of src/app.py (logs, daily_stats, feeding_schedules only).   *)
(*                                                                         *)
(* Text values that the code parses (the ip_address of add_feeder) are     *)
(* sequences of one-character strings.  Columns that no modelled statement *)
(* reads in a condition (feeder_name, location, max_capacity_g, source,    *)
(* weight, created_at, updated_at, esp_cam_ip) are left out of the rows.   *)
(***************************************************************************)
EXTENDS Integers, Sequences, FiniteSets, TLC

VARIABLES
    schema,       \* which script created the tables of feeder.db
    tz,           \* offset of the server's local clock from UTC, in ticks
    now,          \* the UTC clock, in ticks
    feeders,      \* table feeders: row i has feeder_id = i (rows are never deleted)
    adding,       \* add_feeder handlers between their SELECT and their INSERT
    logs,         \* table logs, in id order
    next_log_id,  \* AUTOINCREMENT counter of logs.id (ids are never reused)
    daily_stats,  \* table daily_stats, in rowid order
    resp,         \* the response of the handler that finished last
    device,       \* the HTTP requests that handler sent to feeder devices
    schedules,    \* table feeding_schedules, in schedule_id order
    captures,     \* delayed camera-capture threads started and not yet run
    camera_trigger,  \* the global flag of gui.py
    cam,          \* trigger_camera handlers between their read and their reset of the flag
    writer,       \* the handler whose write transaction holds the database lock, 0 if none
    tx,           \* recording handlers inside their write transaction
    call          \* handlers blocked in a call to a device or waiting for the database lock

(* The state the handlers of the later sections work on *)
aux == <<schedules, captures, camera_trigger, cam, writer, tx, call>>

vars == <<schema, tz, now, feeders, adding, logs, next_log_id, daily_stats, resp, device,
          schedules, captures, camera_trigger, cam, writer, tx, call>>

-----------------------------------------------------------------------------
(* Bounds of the model *)

MaxFeeders == 2
MaxLogs == 3
MaxTime == 2
MaxHandlers == 2
MaxSchedules == 2
MaxWait == 5

(* Ticks per calendar day *)
DayLen == 2

-----------------------------------------------------------------------------
(* SQL NULL: -1 in the timestamp columns, "NULL" in feeding_id, <<>> in    *)
(* image_path.                                                             *)
NULL == 0 - 1
NULL_TEXT == "NULL"
NULL_PATH == <<>>

(* The two ways feeder.db gets its tables. *)
Schemas == {"setup", "app"}

(* Tables and columns the statements of app.py depend on. *)
HasFeedersTable == schema = "setup"
LogsHasFeedType == schema = "app"
DailyStatsHasFeederId == schema = "setup"

-----------------------------------------------------------------------------
(* Clock *)

LocalNow == now + tz
DateOf(t) == t \div DayLen
today == DateOf(LocalNow)
DateNowUTC == DateOf(now)

-----------------------------------------------------------------------------
(* Text helpers: str.split, str.isdigit, int() *)

Digits == {"0", "1", "2", "3", "4", "5", "6", "7", "8", "9"}

DigitVal(c) ==
    CASE c = "0" -> 0 [] c = "1" -> 1 [] c = "2" -> 2 [] c = "3" -> 3
      [] c = "4" -> 4 [] c = "5" -> 5 [] c = "6" -> 6 [] c = "7" -> 7
      [] c = "8" -> 8 [] c = "9" -> 9

Contains(s, c) == \E i \in 1..Len(s) : s[i] = c

RECURSIVE Split(_, _)
Split(s, sep) ==
    IF ~Contains(s, sep) THEN <<s>>
    ELSE LET i == CHOOSE k \in 1..Len(s) :
                      s[k] = sep /\ \A j \in 1..(k - 1) : s[j] # sep
         IN  <<SubSeq(s, 1, i - 1)>> \o Split(SubSeq(s, i + 1, Len(s)), sep)

isdigit(s) == Len(s) > 0 /\ \A i \in 1..Len(s) : s[i] \in Digits

RECURSIVE DigitsValue(_)
DigitsValue(s) ==
    IF Len(s) = 0 THEN 0
    ELSE 10 * DigitsValue(SubSeq(s, 1, Len(s) - 1)) + DigitVal(s[Len(s)])

(* int(s): an optional sign followed by decimal digits, ValueError otherwise *)
IntBody(s) == IF Len(s) > 0 /\ s[1] \in {"+", "-"} THEN Tail(s) ELSE s
IntParses(s) == isdigit(IntBody(s))
IntValue(s) ==
    IF Len(s) > 0 /\ s[1] = "-" THEN 0 - DigitsValue(IntBody(s))
    ELSE DigitsValue(IntBody(s))

-----------------------------------------------------------------------------
(* Inputs *)

Str_1_2_3_4 == <<"1", ".", "2", ".", "3", ".", "4">>
Str_1_2_3_5 == <<"1", ".", "2", ".", "3", ".", "5">>

(* Request bodies' ip_address (add_feeder); <<>> is a missing or empty field *)
AddrInputs ==
    { Str_1_2_3_4,                                   \* "1.2.3.4"
      Str_1_2_3_4 \o <<":", "8", "0">>,              \* "1.2.3.4:80"
      Str_1_2_3_4 \o <<":", "8", "1">>,              \* "1.2.3.4:81"
      Str_1_2_3_5,                                   \* "1.2.3.5"
      <<"9", "9", "9", ".", "1", ".", "1", ".", "1">>,  \* "999.1.1.1"
      <<"1", ".", "2", ".", "3">>,                   \* "1.2.3"
      Str_1_2_3_4 \o <<":", "x">>,                   \* "1.2.3.4:x"
      Str_1_2_3_4 \o <<":", "8", "0", ":", "1">>,    \* "1.2.3.4:80:1"
      <<>> }

(* esp32_ip arguments of the ip_management helpers; <<>> is None *)
IpInputs == {Str_1_2_3_4, Str_1_2_3_5}

Handlers == 1..MaxHandlers
FeederIds == 1..(MaxFeeders + 1)

-----------------------------------------------------------------------------
(* Rows and responses *)

FeederRow(ip, port) ==
    [esp32_ip |-> ip, esp32_port |-> port, is_active |-> TRUE, is_online |-> FALSE,
     last_online |-> now, last_offline |-> NULL]

Idle == [st |-> "idle", ip |-> <<>>, port |-> 0]

(* A handler outside any write transaction *)
NoTx == [st |-> "idle", op |-> "none", event_type |-> "none", timestamp |-> 0,
         date |-> 0, total |-> 0]

(* A handler that is not blocked in any call *)
NoCall == [st |-> "idle", op |-> "none", feeder_id |-> 0, verdict |-> "none",
           fetched |-> <<>>, body |-> <<>>, waited |-> 0]

Response(op, status) == [op |-> op, status |-> status, id |-> 0, body |-> <<>>]

ActiveIds(fs) == {i \in 1..Len(fs) : fs[i].is_active}

-----------------------------------------------------------------------------
(* add_feeder: validation of the request, then the duplicate check (SELECT) *)
(* and the INSERT.  The SELECT runs outside any transaction (the sqlite3    *)
(* module opens one only before the INSERT), so other handlers may commit   *)
(* between the two steps.                                                   *)

(* Lines 226-231: "ok" with ip and port, or "error" when unpacking the      *)
(* split or int(port) raises ValueError.                                    *)
ParseAddress(ip_address) ==
    IF Contains(ip_address, ":")
    THEN LET pieces == Split(ip_address, ":")
         IN  IF Len(pieces) # 2 \/ ~IntParses(pieces[2])
             THEN [st |-> "error", ip |-> <<>>, port |-> 0]
             ELSE [st |-> "ok", ip |-> pieces[1], port |-> IntValue(pieces[2])]
    ELSE [st |-> "ok", ip |-> ip_address, port |-> 80]

(* Lines 234-235 *)
ValidIp(ip) ==
    LET parts == Split(ip, ".")
    IN  /\ Len(parts) = 4
        /\ \A k \in 1..Len(parts) :
              isdigit(parts[k]) /\ 0 <= DigitsValue(parts[k]) /\ DigitsValue(parts[k]) <= 255

(* Line 242: SELECT feeder_id FROM feeders WHERE esp32_ip = ? AND is_active = 1 *)
IpExists(fs, ip) == \E i \in 1..Len(fs) : fs[i].esp32_ip = ip /\ fs[i].is_active

(* Status the request is rejected with before anything is written, 0 when it *)
(* passes the duplicate check.                                               *)
add_feeder_reject(has_name, ip_address) ==
    IF ~has_name \/ ip_address = <<>> THEN 400
    ELSE LET p == ParseAddress(ip_address)
         IN  IF p.st = "error" THEN 500
             ELSE IF ~ValidIp(p.ip) THEN 400
             ELSE IF ~HasFeedersTable THEN 500
             ELSE IF IpExists(feeders, p.ip) THEN 400
             ELSE 0

NumChecked == Cardinality({h \in Handlers : adding[h].st = "checked"})

add_feeder_check(h, has_name, ip_address) ==
    /\ adding[h].st = "idle"
    /\ LET code == add_feeder_reject(has_name, ip_address)
           p == ParseAddress(ip_address)
       IN  IF code # 0
           THEN /\ resp' = Response("add_feeder", code)
                /\ device' = <<>>
                /\ UNCHANGED adding
           ELSE /\ Len(feeders) + NumChecked < MaxFeeders
                /\ adding' = [adding EXCEPT ![h] = [st |-> "checked", ip |-> p.ip, port |-> p.port]]
                /\ UNCHANGED <<resp, device>>
    /\ UNCHANGED <<schema, tz, now, feeders, logs, next_log_id, daily_stats>>
    /\ UNCHANGED aux

add_feeder_insert(h) ==
    /\ adding[h].st = "checked"
    /\ feeders' = Append(feeders, FeederRow(adding[h].ip, adding[h].port))
    /\ adding' = [adding EXCEPT ![h] = Idle]
    /\ resp' = [Response("add_feeder", 200) EXCEPT !.id = Len(feeders) + 1]
    /\ UNCHANGED <<schema, tz, now, logs, next_log_id, daily_stats>>
    /\ UNCHANGED aux
    /\ device' = <<>>

-----------------------------------------------------------------------------
(* delete_feeder *)

(* A delete_feeder that also removes the feeder's log rows *)
delete_feeder_Cascade(feeder_id) ==
    /\ IF ~HasFeedersTable
       THEN /\ resp' = Response("delete_feeder", 500)
            /\ UNCHANGED <<feeders, logs>>
       ELSE IF feeder_id \notin 1..Len(feeders)
       THEN /\ resp' = Response("delete_feeder", 404)
            /\ UNCHANGED <<feeders, logs>>
       ELSE /\ feeders' = [feeders EXCEPT ![feeder_id].is_active = FALSE]
            /\ logs' = LET keep(l) == l.feeder_id # feeder_id IN SelectSeq(logs, keep)
            /\ resp' = [Response("delete_feeder", 200) EXCEPT !.id = feeder_id]
    /\ UNCHANGED <<schema, tz, now, adding, next_log_id, daily_stats>>
    /\ UNCHANGED aux
    /\ device' = <<>>

delete_feeder(feeder_id) ==
    /\ IF ~HasFeedersTable
       THEN /\ resp' = Response("delete_feeder", 500)
            /\ UNCHANGED feeders
       ELSE IF feeder_id \notin 1..Len(feeders)
       THEN /\ resp' = Response("delete_feeder", 404)
            /\ UNCHANGED feeders
       ELSE /\ feeders' = [feeders EXCEPT ![feeder_id].is_active = FALSE]
            /\ resp' = [Response("delete_feeder", 200) EXCEPT !.id = feeder_id]
    /\ UNCHANGED <<schema, tz, now, adding, logs, next_log_id, daily_stats>>
    /\ UNCHANGED aux
    /\ device' = <<>>

-----------------------------------------------------------------------------
(* ip_management.py *)

add_new_feeder(esp32_ip) ==
    /\ IF ~HasFeedersTable
       THEN /\ resp' = Response("add_new_feeder", 500)
            /\ UNCHANGED feeders
       ELSE /\ Len(feeders) + NumChecked < MaxFeeders
            /\ feeders' = Append(feeders, FeederRow(esp32_ip, 80))
            /\ resp' = [Response("add_new_feeder", 200) EXCEPT !.id = Len(feeders) + 1]
    /\ UNCHANGED <<schema, tz, now, adding, logs, next_log_id, daily_stats>>
    /\ UNCHANGED aux
    /\ device' = <<>>

update_feeder_ip(feeder_id, esp32_ip) ==
    /\ IF ~HasFeedersTable
       THEN /\ resp' = Response("update_feeder_ip", 500)
            /\ UNCHANGED feeders
       ELSE /\ feeders' = IF esp32_ip # <<>> /\ feeder_id \in 1..Len(feeders)
                          THEN [feeders EXCEPT ![feeder_id].esp32_ip = esp32_ip]
                          ELSE feeders
            /\ resp' = [Response("update_feeder_ip", 200) EXCEPT !.id = feeder_id]
    /\ UNCHANGED <<schema, tz, now, adding, logs, next_log_id, daily_stats>>
    /\ UNCHANGED aux
    /\ device' = <<>>

-----------------------------------------------------------------------------
(* Reachability: update_feeder_status and get_feeders *)

(* An update_feeder_status whose offline branch stamps last_online *)
update_feeder_status_WrongStamp(fs, feeder_id, is_online) ==
    IF feeder_id \notin 1..Len(fs) THEN fs
    ELSE [fs EXCEPT ![feeder_id].is_online = is_online, ![feeder_id].last_online = LocalNow]

(* An update_feeder_status that stamps both timestamps on every call *)
update_feeder_status_BothStamps(fs, feeder_id, is_online) ==
    IF feeder_id \notin 1..Len(fs) THEN fs
    ELSE [fs EXCEPT ![feeder_id].is_online = is_online,
                    ![feeder_id].last_online = LocalNow,
                    ![feeder_id].last_offline = LocalNow]

(* The feeders table after update_feeder_status(feeder_id, is_online); an   *)
(* UPDATE that matches no row changes nothing.                              *)
update_feeder_status(fs, feeder_id, is_online) ==
    IF feeder_id \notin 1..Len(fs) THEN fs
    ELSE IF is_online
    THEN [fs EXCEPT ![feeder_id].is_online = TRUE, ![feeder_id].last_online = LocalNow]
    ELSE [fs EXCEPT ![feeder_id].is_online = FALSE, ![feeder_id].last_offline = LocalNow]

(* update_feeder_status called on its own: its callers ignore what it       *)
(* returns (None) and it lets no exception out.                             *)
update_feeder_status_call(feeder_id, is_online) ==
    /\ feeders' = update_feeder_status(feeders, feeder_id, is_online)
    /\ resp' = [Response("update_feeder_status", 0) EXCEPT
                    !.id = feeder_id, !.body = <<is_online>>]
    /\ device' = <<>>
    /\ UNCHANGED <<schema, tz, now, adding, logs, next_log_id, daily_stats>>
    /\ UNCHANGED aux

(* A reconciliation that writes the verdict on every probe *)
StatusChanged_Always(is_online, stored) == TRUE

(* A reconciliation that writes only when a feeder comes online *)
StatusChanged_OnlyRising(is_online, stored) == is_online /\ ~stored

(* Line 186: the status is written only when the verdict differs from the   *)
(* is_online column read by the SELECT.                                     *)
StatusChanged(is_online, stored) == is_online # stored

(* What becomes of the status request of check_feeder_online: an answer     *)
(* with a status code, or an exception of requests (no answer within the    *)
(* timeout, connection refused, an address that is no valid URL).           *)
ProbeOutcomes == {"200", "404", "500", "timeout", "refused", "invalid_url"}

requests_get(outcome) ==
    IF outcome \in {"timeout", "refused", "invalid_url"}
    THEN [raised |-> TRUE, status_code |-> 0]
    ELSE [raised |-> FALSE,
          status_code |-> CASE outcome = "200" -> 200
                            [] outcome = "404" -> 404
                            [] outcome = "500" -> 500]

(* A probe that takes any answer of the device for a sign of life *)
check_feeder_online_AnyAnswer(outcome) ==
    LET response == requests_get(outcome)
    IN  IF response.raised THEN FALSE ELSE TRUE

(* Lines 415-424: the bare except turns every exception into False *)
check_feeder_online(outcome) ==
    LET response == requests_get(outcome)
    IN  IF response.raised THEN FALSE ELSE response.status_code = 200

(* The request a handler sent to the device of a feeder, and what became of it *)
DeviceRequest(kind, feeder_id, outcome) ==
    [kind |-> kind, feeder_id |-> feeder_id, outcome |-> outcome]

(* The loop of lines 181-205 over the rows fetched by the SELECT, from      *)
(* feeder_id k on; outcome[i] is what becomes of the status request to the  *)
(* device of row i.                                                         *)
RECURSIVE ReconcileFrom(_, _, _, _)
ReconcileFrom(fs, fetched, outcome, k) ==
    IF k > Len(fetched) THEN fs
    ELSE IF /\ fetched[k].is_active
            /\ StatusChanged(check_feeder_online(outcome[k]), fetched[k].is_online)
    THEN ReconcileFrom(update_feeder_status(fs, k, check_feeder_online(outcome[k])),
                       fetched, outcome, k + 1)
    ELSE ReconcileFrom(fs, fetched, outcome, k + 1)

RECURSIVE FeedersList(_, _, _)
FeedersList(fetched, outcome, k) ==
    IF k > Len(fetched) THEN <<>>
    ELSE IF fetched[k].is_active
    THEN <<[id |-> k, is_online |-> check_feeder_online(outcome[k])]>>
             \o FeedersList(fetched, outcome, k + 1)
    ELSE FeedersList(fetched, outcome, k + 1)

(* The status requests of one get_feeders: one per fetched row *)
RECURSIVE Probes(_, _, _)
Probes(fetched, outcome, k) ==
    IF k > Len(fetched) THEN <<>>
    ELSE IF fetched[k].is_active
    THEN <<DeviceRequest("get_status", k, outcome[k])>> \o Probes(fetched, outcome, k + 1)
    ELSE Probes(fetched, outcome, k + 1)

get_feeders(outcome) ==
    /\ IF ~HasFeedersTable
       THEN /\ resp' = Response("get_feeders", 500)
            /\ device' = <<>>
            /\ UNCHANGED feeders
       ELSE /\ feeders' = ReconcileFrom(feeders, feeders, outcome, 1)
            /\ resp' = [Response("get_feeders", 200) EXCEPT !.body = FeedersList(feeders, outcome, 1)]
            /\ device' = Probes(feeders, outcome, 1)
    /\ UNCHANGED <<schema, tz, now, adding, logs, next_log_id, daily_stats>>
    /\ UNCHANGED aux

-----------------------------------------------------------------------------
Tick ==
    /\ now < MaxTime
    /\ now' = now + 1
    /\ UNCHANGED <<schema, tz, feeders, adding, logs, next_log_id, daily_stats, resp, device>>
    /\ UNCHANGED aux

-----------------------------------------------------------------------------
(* Feeding events and the daily aggregate *)

Amounts == {50, 100}
EventTypes == {"MANUAL_FEED", "SCHEDULED_FEED", "BUTTON_FEED", "UNKNOWN"}
CountableTypes == {"MANUAL_FEED", "SCHEDULED_FEED", "BUTTON_FEED"}
(* X-Feeding-ID header / feeding_id form field; "" when absent *)
FeedingIds == {"", "abc123"}
(* Answers of the device to the dispense command *)
Outcomes == {"200", "non200", "transport"}

LogRow(feeder_id, amount, event_type, feeding_id) ==
    [id |-> next_log_id, feeder_id |-> feeder_id, timestamp |-> LocalNow,
     amount |-> amount, event_type |-> event_type, image_path |-> NULL_PATH,
     feeding_id |-> feeding_id]

(* total_feedings of the first row the scalar subquery finds, or 0 *)
FirstTotal(rows) == IF rows = <<>> THEN 0 ELSE rows[1].total_feedings

(* Lines 376-383: INSERT OR REPLACE ... (feeder_id, date, total_feedings) *)
upsert_feeder_date(ds, feeder_id, d) ==
    LET match(r) == r.feeder_id = feeder_id /\ r.date = d
        other(r) == ~match(r)
    IN  Append(SelectSeq(ds, other),
               [feeder_id |-> feeder_id, date |-> d,
                total_feedings |-> FirstTotal(SelectSeq(ds, match)) + 1])

(* Lines 562-565 and 592-595: INSERT OR REPLACE ... (date, total_feedings);  *)
(* the subquery selects on the date alone.  With the tables of               *)
(* setup_database.py the new row gets feeder_id 1 by default and replaces    *)
(* the row of (1, date); with those of init_db, date is the primary key.     *)
upsert_date(ds, d) ==
    LET fid == IF DailyStatsHasFeederId THEN 1 ELSE NULL
        samedate(r) == r.date = d
        conflict(r) == r.date = d /\ r.feeder_id = fid
        other(r) == ~conflict(r)
    IN  Append(SelectSeq(ds, other),
               [feeder_id |-> fid, date |-> d,
                total_feedings |-> FirstTotal(SelectSeq(ds, samedate)) + 1])

(* The statement of a recording transaction that the storage layer fails    *)
(* (sqlite3.Error raised by c.execute), "none" when both succeed.           *)
StorageFaults == {"none", "insert", "upsert"}

(* The tables a recording transaction writes *)
Recorded(ls, nid, ds) == [logs |-> ls, next_log_id |-> nid, daily_stats |-> ds]

(* A context manager that commits whatever was written when the block raises *)
get_db_NoRollback(before, written, raised) == written

(* Lines 41-51: the with-block's writes are committed when it ends normally *)
(* and rolled back when it raises.                                          *)
get_db(before, written, raised) == IF raised THEN before ELSE written

(* The with-block of a recording handler: INSERT INTO logs, then (when      *)
(* counted) the upsert of daily_stats, cut short by the fault.              *)
RecordingBlock(row, counted, upserted, fault) ==
    LET before == Recorded(logs, next_log_id, daily_stats)
        inserted == Recorded(Append(logs, row), next_log_id + 1, daily_stats)
        both == Recorded(Append(logs, row), next_log_id + 1, upserted)
        written == IF fault = "insert" THEN before
                   ELSE IF ~counted THEN inserted
                   ELSE IF fault = "upsert" THEN inserted
                   ELSE both
    IN  get_db(before, written, fault # "none")

(* A trigger_feeding_by_feeder that marks the feeder online when it answers *)
trigger_feeding_by_feeder_MarkOnline(feeder_id, amount, outcome, fault) ==
    /\ IF ~HasFeedersTable
       THEN /\ resp' = Response("trigger_feeding_by_feeder", 500)
            /\ device' = <<>>
            /\ UNCHANGED <<feeders, logs, next_log_id, daily_stats>>
       ELSE IF feeder_id \notin ActiveIds(feeders)
       THEN /\ resp' = Response("trigger_feeding_by_feeder", 404)
            /\ device' = <<>>
            /\ UNCHANGED <<feeders, logs, next_log_id, daily_stats>>
       ELSE /\ device' = <<DeviceRequest("trigger_dispensing", feeder_id, outcome)>>
            /\ IF outcome = "200"
               THEN /\ next_log_id <= MaxLogs
                    /\ LET db == RecordingBlock(
                                     LogRow(feeder_id, amount, "MANUAL_FEED", NULL_TEXT), TRUE,
                                     upsert_feeder_date(daily_stats, feeder_id, today), fault)
                       IN  /\ logs' = db.logs
                           /\ next_log_id' = db.next_log_id
                           /\ daily_stats' = db.daily_stats
                    /\ resp' = [Response("trigger_feeding_by_feeder",
                                         IF fault = "none" THEN 200 ELSE 500)
                                   EXCEPT !.id = feeder_id]
                    /\ feeders' = update_feeder_status(feeders, feeder_id, TRUE)
               ELSE IF outcome = "non200"
               THEN /\ resp' = [Response("trigger_feeding_by_feeder", 500) EXCEPT !.id = feeder_id]
                    /\ UNCHANGED <<feeders, logs, next_log_id, daily_stats>>
               ELSE /\ feeders' = update_feeder_status(feeders, feeder_id, FALSE)
                    /\ resp' = [Response("trigger_feeding_by_feeder", 503) EXCEPT !.id = feeder_id]
                    /\ UNCHANGED <<logs, next_log_id, daily_stats>>
    /\ UNCHANGED <<schema, tz, now, adding>>
    /\ UNCHANGED aux

trigger_feeding_by_feeder(feeder_id, amount, outcome, fault) ==
    /\ IF ~HasFeedersTable
       THEN /\ resp' = Response("trigger_feeding_by_feeder", 500)
            /\ device' = <<>>
            /\ UNCHANGED <<feeders, logs, next_log_id, daily_stats>>
       ELSE IF feeder_id \notin ActiveIds(feeders)
       THEN /\ resp' = Response("trigger_feeding_by_feeder", 404)
            /\ device' = <<>>
            /\ UNCHANGED <<feeders, logs, next_log_id, daily_stats>>
       ELSE /\ device' = <<DeviceRequest("trigger_dispensing", feeder_id, outcome)>>
            /\ IF outcome = "200"
               THEN /\ next_log_id <= MaxLogs
                    /\ LET db == RecordingBlock(
                                     LogRow(feeder_id, amount, "MANUAL_FEED", NULL_TEXT), TRUE,
                                     upsert_feeder_date(daily_stats, feeder_id, today), fault)
                       IN  /\ logs' = db.logs
                           /\ next_log_id' = db.next_log_id
                           /\ daily_stats' = db.daily_stats
                    /\ resp' = [Response("trigger_feeding_by_feeder",
                                         IF fault = "none" THEN 200 ELSE 500)
                                   EXCEPT !.id = feeder_id]
                    /\ UNCHANGED feeders
               ELSE IF outcome = "non200"
               THEN /\ resp' = [Response("trigger_feeding_by_feeder", 500) EXCEPT !.id = feeder_id]
                    /\ UNCHANGED <<feeders, logs, next_log_id, daily_stats>>
               ELSE /\ feeders' = update_feeder_status(feeders, feeder_id, FALSE)
                    /\ resp' = [Response("trigger_feeding_by_feeder", 503) EXCEPT !.id = feeder_id]
                    /\ UNCHANGED <<logs, next_log_id, daily_stats>>
    /\ UNCHANGED <<schema, tz, now, adding>>
    /\ UNCHANGED aux

(* The device of trigger_feeding is the one at ESP32_IP, the address of     *)
(* feeder 1; its rows get feeder_id 1 by the column's default.              *)
trigger_feeding(amount, outcome, fault) ==
    /\ device' = <<DeviceRequest("trigger_dispensing", 1, outcome)>>
    /\ IF outcome = "200"
       THEN /\ next_log_id <= MaxLogs
            /\ LET db == RecordingBlock(LogRow(1, amount, "MANUAL_FEED", NULL_TEXT), TRUE,
                                        upsert_date(daily_stats, today), fault)
               IN  /\ logs' = db.logs
                   /\ next_log_id' = db.next_log_id
                   /\ daily_stats' = db.daily_stats
            /\ resp' = Response("trigger_feeding", IF fault = "none" THEN 200 ELSE 500)
            /\ captures' = IF fault = "none" THEN captures + 1 ELSE captures
       ELSE /\ resp' = Response("trigger_feeding", 500)
            /\ UNCHANGED <<logs, next_log_id, daily_stats, captures>>
    /\ UNCHANGED <<schema, tz, now, feeders, adding>>
    /\ UNCHANGED <<schedules, camera_trigger, cam, writer, tx, call>>

(* Lines 598-606: the thread started by trigger_feeding sleeps 5 seconds,   *)
(* asks the camera for a capture and ignores what becomes of the request.   *)
trigger_camera_delayed(outcome) ==
    /\ captures > 0
    /\ captures' = captures - 1
    /\ device' = <<DeviceRequest("trigger_capture", 1, outcome)>>
    /\ UNCHANGED <<schema, tz, now, feeders, adding, logs, next_log_id, daily_stats, resp>>
    /\ UNCHANGED <<schedules, camera_trigger, cam, writer, tx, call>>

log_data(event_type, amount, feeding_id, fault) ==
    /\ IF ~LogsHasFeedType
       THEN /\ resp' = Response("log_data", 500)
            /\ UNCHANGED <<logs, next_log_id, daily_stats>>
       ELSE /\ next_log_id <= MaxLogs
            /\ fault = "upsert" => event_type \in CountableTypes
            /\ LET db == RecordingBlock(LogRow(1, amount, event_type, feeding_id),
                                        event_type \in CountableTypes,
                                        upsert_date(daily_stats, today), fault)
               IN  /\ logs' = db.logs
                   /\ next_log_id' = db.next_log_id
                   /\ daily_stats' = db.daily_stats
            /\ resp' = Response("log_data", IF fault = "none" THEN 200 ELSE 500)
    /\ UNCHANGED <<schema, tz, now, feeders, adding>>
    /\ UNCHANGED aux
    /\ device' = <<>>

-----------------------------------------------------------------------------
(* Recording handlers running in several threads: trigger_feeding and        *)
(* log_data as the statements of their with-block, each a step of its own.   *)
(* tx[h] is the transaction of handler h's connection; writer is the handler *)
(* whose connection holds the write lock of the database file (0: nobody).   *)

ConcurrentOps == {"trigger_feeding", "log_data"}

(* A storage layer that lets two connections write at once *)
CanWrite_NoLock(h) == TRUE

(* SQLite grants the write lock to one connection at a time; the first       *)
(* INSERT of a transaction takes it.                                         *)
CanWrite(h) == writer = 0

(* Lines 540-549 and 577-584: the handler reads its inputs, trigger_feeding  *)
(* has the device's 200, the timestamp is taken and the connection opened.   *)
(* On the tables of setup_database.py the INSERT of log_data names a column  *)
(* the table lacks and the handler answers 500.                              *)
recording_start(h, op, event_type) ==
    /\ tx[h].st = "idle"
    /\ op = "trigger_feeding" => event_type = "MANUAL_FEED"
    /\ device' = IF op = "trigger_feeding"
                 THEN <<DeviceRequest("trigger_dispensing", 1, "200")>>
                 ELSE <<>>
    /\ IF op = "log_data" /\ ~LogsHasFeedType
       THEN /\ resp' = Response("log_data", 500)
            /\ UNCHANGED tx
       ELSE /\ tx' = [tx EXCEPT ![h] = [st |-> "started", op |-> op, event_type |-> event_type,
                                        timestamp |-> LocalNow, date |-> 0, total |-> 0]]
            /\ UNCHANGED resp
    /\ UNCHANGED <<schema, tz, now, feeders, adding, logs, next_log_id, daily_stats>>
    /\ UNCHANGED <<schedules, captures, camera_trigger, cam, writer, call>>

(* Lines 553-556 and 586-587: INSERT INTO logs; the connection takes the     *)
(* write lock and holds the new row until it commits.                        *)
execute_insert(h) ==
    /\ tx[h].st = "started"
    /\ CanWrite(h)
    /\ writer' = h
    /\ tx' = [tx EXCEPT ![h].st = "inserted"]
    /\ device' = <<>>
    /\ UNCHANGED <<schema, tz, now, feeders, adding, logs, next_log_id, daily_stats, resp>>
    /\ UNCHANGED <<schedules, captures, camera_trigger, cam, call>>

(* Line 43 (timeout=10): the lock stayed with another connection for the     *)
(* whole timeout; the INSERT raises "database is locked", get_db rolls back  *)
(* and the handler answers 500.                                              *)
database_is_locked(h) ==
    /\ tx[h].st = "started"
    /\ writer \notin {0, h}
    /\ tx' = [tx EXCEPT ![h] = NoTx]
    /\ resp' = Response(tx[h].op, 500)
    /\ device' = <<>>
    /\ UNCHANGED <<schema, tz, now, feeders, adding, logs, next_log_id, daily_stats>>
    /\ UNCHANGED <<schedules, captures, camera_trigger, cam, writer, call>>

(* Lines 559-565 and 590-595: today is read and the INSERT OR REPLACE run:   *)
(* its subquery reads the committed total of the date.                       *)
execute_upsert(h) ==
    /\ tx[h].st = "inserted"
    /\ tx[h].event_type \in CountableTypes
    /\ LET ds == upsert_date(daily_stats, today)
       IN  tx' = [tx EXCEPT ![h].st = "upserted", ![h].date = today,
                            ![h].total = ds[Len(ds)].total_feedings]
    /\ device' = <<>>
    /\ UNCHANGED <<schema, tz, now, feeders, adding, logs, next_log_id, daily_stats, resp>>
    /\ UNCHANGED <<schedules, captures, camera_trigger, cam, writer, call>>

(* Line 46: conn.commit() at the end of the with-block publishes the row of  *)
(* logs and the row of daily_stats together and releases the lock; the       *)
(* handler answers 200 (trigger_feeding after starting the capture thread).  *)
commit(h) ==
    /\ \/ tx[h].st = "upserted"
       \/ tx[h].st = "inserted" /\ tx[h].event_type \notin CountableTypes
    /\ next_log_id <= MaxLogs
    /\ logs' = Append(logs, [id |-> next_log_id, feeder_id |-> 1,
                             timestamp |-> tx[h].timestamp, amount |-> 50,
                             event_type |-> tx[h].event_type, image_path |-> NULL_PATH,
                             feeding_id |-> IF tx[h].op = "log_data" THEN "" ELSE NULL_TEXT])
    /\ next_log_id' = next_log_id + 1
    /\ daily_stats' =
           IF tx[h].st = "upserted"
           THEN LET fid == IF DailyStatsHasFeederId THEN 1 ELSE NULL
                    other(r) == ~(r.date = tx[h].date /\ r.feeder_id = fid)
                IN  Append(SelectSeq(daily_stats, other),
                           [feeder_id |-> fid, date |-> tx[h].date,
                            total_feedings |-> tx[h].total])
           ELSE daily_stats
    /\ writer' = IF writer = h THEN 0 ELSE writer
    /\ tx' = [tx EXCEPT ![h] = NoTx]
    /\ captures' = IF tx[h].op = "trigger_feeding" THEN captures + 1 ELSE captures
    /\ resp' = Response(tx[h].op, 200)
    /\ device' = <<>>
    /\ UNCHANGED <<schema, tz, now, feeders, adding>>
    /\ UNCHANGED <<schedules, camera_trigger, cam, call>>

-----------------------------------------------------------------------------
(* gui.py: the camera trigger flag.  The server runs its handlers in         *)
(* threads; cam[h] says that thread h, inside trigger_camera, has read the   *)
(* flag as set and has not yet reset it.                                     *)

(* Lines 113-117 *)
set_trigger ==
    /\ camera_trigger' = TRUE
    /\ resp' = Response("set_trigger", 200)
    /\ device' = <<>>
    /\ UNCHANGED <<schema, tz, now, feeders, adding, logs, next_log_id, daily_stats>>
    /\ UNCHANGED <<schedules, captures, cam, writer, tx, call>>

(* Lines 106-107 and 110-111: if camera_trigger: ... else: return "false" *)
trigger_camera_read(h) ==
    /\ ~cam[h]
    /\ IF camera_trigger
       THEN /\ cam' = [cam EXCEPT ![h] = TRUE]
            /\ UNCHANGED resp
       ELSE /\ resp' = [Response("trigger_camera", 200) EXCEPT !.id = h, !.body = <<"false">>]
            /\ UNCHANGED cam
    /\ device' = <<>>
    /\ UNCHANGED <<schema, tz, now, feeders, adding, logs, next_log_id, daily_stats>>
    /\ UNCHANGED <<schedules, captures, camera_trigger, writer, tx, call>>

(* Lines 108-109: camera_trigger = False; return "true" *)
trigger_camera_reset(h) ==
    /\ cam[h]
    /\ camera_trigger' = FALSE
    /\ cam' = [cam EXCEPT ![h] = FALSE]
    /\ resp' = [Response("trigger_camera", 200) EXCEPT !.id = h, !.body = <<"true">>]
    /\ device' = <<>>
    /\ UNCHANGED <<schema, tz, now, feeders, adding, logs, next_log_id, daily_stats>>
    /\ UNCHANGED <<schedules, captures, writer, tx, call>>

-----------------------------------------------------------------------------
(* The blocking calls of trigger_feeding_by_feeder and get_feeders, in       *)
(* several threads.  call[h] is where handler h stands: st "device" while    *)
(* it waits for the answer to a request, "database" while its connection     *)
(* waits for the write lock, "writing" while it holds it; waited counts the  *)
(* seconds spent waiting for the device.                                     *)

(* Lines 347-351 (timeout=5) and 415-420 (timeout=2) *)
DeviceTimeout(op) == IF op = "get_feeders" THEN 2 ELSE 5

(* Calls made without a timeout *)
TimedOut_Never(c) == FALSE

(* requests gives up when the wait has lasted the timeout *)
TimedOut(c) == c.waited >= DeviceTimeout(c.op)

FeedingsInFlight ==
    Cardinality({h \in Handlers : call[h].op = "trigger_feeding_by_feeder"})

(* The first active row of fetched from index k on, 0 when there is none *)
NextActive(fetched, k) ==
    IF \E i \in k..Len(fetched) : fetched[i].is_active
    THEN CHOOSE i \in k..Len(fetched) :
             fetched[i].is_active /\ \A j \in k..(i - 1) : ~fetched[j].is_active
    ELSE 0

(* Lines 181-205: get_feeders goes on to the next fetched row, or is done *)
Advance(c) ==
    LET k == NextActive(c.fetched, c.feeder_id + 1)
    IN  IF k = 0 THEN [c EXCEPT !.st = "done"]
        ELSE [c EXCEPT !.st = "device", !.feeder_id = k, !.verdict = "none", !.waited = 0]

(* Lines 183-187: the verdict of the probe is noted and written to the       *)
(* feeders table when it differs from the column read by the SELECT.         *)
AfterProbe(c, is_online) ==
    LET noted == [c EXCEPT !.body = Append(@, [id |-> c.feeder_id, is_online |-> is_online]),
                           !.verdict = IF is_online THEN "online" ELSE "offline",
                           !.waited = 0]
    IN  IF StatusChanged(is_online, c.fetched[c.feeder_id].is_online)
        THEN [noted EXCEPT !.st = "database"]
        ELSE Advance(noted)

(* The handler goes on as c, or returns response when c is done *)
Settle(h, c, response) ==
    /\ call' = [call EXCEPT ![h] = IF c.st = "done" THEN NoCall ELSE c]
    /\ resp' = IF c.st = "done" THEN response ELSE resp

FeedersResponse(c) == [Response("get_feeders", 200) EXCEPT !.body = c.body]

(* Lines 151-180 and 314-345: the handler runs its SELECT and sends its      *)
(* first request to a device.                                                *)
handler_start(h, op, feeder_id) ==
    /\ call[h].st = "idle"
    /\ IF ~HasFeedersTable
       THEN /\ resp' = Response(op, 500)
            /\ UNCHANGED call
       ELSE IF op = "trigger_feeding_by_feeder"
       THEN IF feeder_id \notin ActiveIds(feeders)
            THEN /\ resp' = [Response(op, 404) EXCEPT !.id = feeder_id]
                 /\ UNCHANGED call
            ELSE /\ next_log_id + FeedingsInFlight <= MaxLogs
                 /\ call' = [call EXCEPT ![h] = [NoCall EXCEPT !.st = "device", !.op = op,
                                                               !.feeder_id = feeder_id]]
                 /\ UNCHANGED resp
       ELSE /\ feeder_id = 0
            /\ LET c == Advance([NoCall EXCEPT !.op = op, !.fetched = feeders])
               IN  Settle(h, c, FeedersResponse(c))
    /\ device' = <<>>
    /\ UNCHANGED <<schema, tz, now, feeders, adding, logs, next_log_id, daily_stats>>
    /\ UNCHANGED <<schedules, captures, camera_trigger, cam, writer, tx>>

(* Lines 352-394 and 421: the device answers with a status code *)
device_answer(h, outcome) ==
    /\ call[h].st = "device"
    /\ LET c == call[h]
       IN  IF c.op = "trigger_feeding_by_feeder"
           THEN /\ outcome \in {"200", "non200"}
                /\ device' = <<DeviceRequest("trigger_dispensing", c.feeder_id, outcome)>>
                /\ IF outcome = "200"
                   THEN /\ call' = [call EXCEPT ![h] = [c EXCEPT !.st = "database",
                                                                 !.verdict = "200",
                                                                 !.waited = 0]]
                        /\ UNCHANGED resp
                   ELSE /\ call' = [call EXCEPT ![h] = NoCall]
                        /\ resp' = [Response(c.op, 500) EXCEPT !.id = c.feeder_id]
           ELSE /\ outcome \in {"200", "500"}
                /\ device' = <<DeviceRequest("get_status", c.feeder_id, outcome)>>
                /\ LET c2 == AfterProbe(c, check_feeder_online(outcome))
                   IN  Settle(h, c2, FeedersResponse(c2))
    /\ UNCHANGED <<schema, tz, now, feeders, adding, logs, next_log_id, daily_stats>>
    /\ UNCHANGED <<schedules, captures, camera_trigger, cam, writer, tx>>

Waiting == {h \in Handlers : call[h].st = "device"}

(* A second passes for every handler that waits; a wait that has reached    *)
(* its timeout ends before the next second.                                 *)
call_wait ==
    /\ Waiting # {}
    /\ \A h \in Waiting : ~TimedOut(call[h]) /\ call[h].waited < MaxWait
    /\ call' = [h \in Handlers |->
                   IF h \in Waiting THEN [call[h] EXCEPT !.waited = @ + 1] ELSE call[h]]
    /\ UNCHANGED <<schema, tz, now, feeders, adding, logs, next_log_id, daily_stats, resp, device>>
    /\ UNCHANGED <<schedules, captures, camera_trigger, cam, writer, tx>>

(* The wait for the device has lasted its timeout: requests raises, the     *)
(* dispense goes on to mark the feeder offline (396-400), the probe returns  *)
(* False (423-424).                                                          *)
call_timeout(h) ==
    /\ call[h].st = "device"
    /\ TimedOut(call[h])
    /\ LET c == call[h]
       IN  IF c.op = "trigger_feeding_by_feeder"
           THEN /\ device' = <<DeviceRequest("trigger_dispensing", c.feeder_id, "timeout")>>
                /\ call' = [call EXCEPT ![h] = [c EXCEPT !.st = "database",
                                                         !.verdict = "transport",
                                                         !.waited = 0]]
                /\ UNCHANGED resp
           ELSE /\ device' = <<DeviceRequest("get_status", c.feeder_id, "timeout")>>
                /\ LET c2 == AfterProbe(c, check_feeder_online("timeout"))
                   IN  Settle(h, c2, FeedersResponse(c2))
    /\ UNCHANGED <<schema, tz, now, feeders, adding, logs, next_log_id, daily_stats>>
    /\ UNCHANGED <<schedules, captures, camera_trigger, cam, writer, tx>>

(* Line 43 (timeout=10): the write lock stayed with another connection for   *)
(* the whole timeout and sqlite3 raises "database is locked"; the recording  *)
(* is given up with 500 (407-409), update_feeder_status swallows the error   *)
(* (457-458) and its caller goes on.                                         *)
lock_timeout(h) ==
    /\ call[h].st = "database"
    /\ writer \notin {0, h}
    /\ LET c == call[h]
       IN  IF c.op = "trigger_feeding_by_feeder"
           THEN /\ call' = [call EXCEPT ![h] = NoCall]
                /\ resp' = [Response(c.op, IF c.verdict = "200" THEN 500 ELSE 503)
                               EXCEPT !.id = c.feeder_id]
           ELSE LET c2 == Advance(c)
                IN  Settle(h, c2, FeedersResponse(c2))
    /\ UNCHANGED <<schema, tz, now, feeders, adding, logs, next_log_id, daily_stats, device>>
    /\ UNCHANGED <<schedules, captures, camera_trigger, cam, writer, tx>>

(* The first writing statement of the with-block takes the write lock *)
lock_acquire(h) ==
    /\ call[h].st = "database"
    /\ CanWrite(h)
    /\ writer' = h
    /\ call' = [call EXCEPT ![h].st = "writing"]
    /\ UNCHANGED <<schema, tz, now, feeders, adding, logs, next_log_id, daily_stats, resp, device>>
    /\ UNCHANGED <<schedules, captures, camera_trigger, cam, tx>>

(* conn.commit() at the end of the with-block: the rows of the recording     *)
(* (355-383), or the status written by update_feeder_status (426-455), are   *)
(* published and the lock is released; the handler returns or goes on.       *)
lock_commit(h) ==
    /\ call[h].st = "writing"
    /\ writer' = 0
    /\ LET c == call[h]
       IN  IF c.op = "trigger_feeding_by_feeder" /\ c.verdict = "200"
           THEN /\ LET db == RecordingBlock(
                                 LogRow(c.feeder_id, 50, "MANUAL_FEED", NULL_TEXT), TRUE,
                                 upsert_feeder_date(daily_stats, c.feeder_id, today), "none")
                   IN  /\ logs' = db.logs
                       /\ next_log_id' = db.next_log_id
                       /\ daily_stats' = db.daily_stats
                /\ call' = [call EXCEPT ![h] = NoCall]
                /\ resp' = [Response(c.op, 200) EXCEPT !.id = c.feeder_id]
                /\ UNCHANGED feeders
           ELSE IF c.op = "trigger_feeding_by_feeder"
           THEN /\ feeders' = update_feeder_status(feeders, c.feeder_id, FALSE)
                /\ call' = [call EXCEPT ![h] = NoCall]
                /\ resp' = [Response(c.op, 503) EXCEPT !.id = c.feeder_id]
                /\ UNCHANGED <<logs, next_log_id, daily_stats>>
           ELSE /\ feeders' = update_feeder_status(feeders, c.feeder_id, c.verdict = "online")
                /\ LET c2 == Advance(c)
                   IN  Settle(h, c2, FeedersResponse(c2))
                /\ UNCHANGED <<logs, next_log_id, daily_stats>>
    /\ UNCHANGED <<schema, tz, now, adding, device>>
    /\ UNCHANGED <<schedules, captures, camera_trigger, cam, tx>>

-----------------------------------------------------------------------------
(* get_feeding_logs *)

(* LIMIT 100 of get_feeding_logs *)
LogsLimit == 100

(* The arrangements of rows into a sequence: the orders in which a SELECT    *)
(* may return them before its ORDER BY is looked at.                         *)
Arrangements(rows) ==
    {p \in [1..Len(rows) -> 1..Len(rows)] : \A i, j \in 1..Len(rows) : i # j => p[i] # p[j]}

(* Lines 480-508: SELECT ... feed_type, feeding_id FROM logs ORDER BY        *)
(* timestamp DESC LIMIT 100; p is the order the rows come in, any order      *)
(* that ORDER BY timestamp DESC allows (rows with equal timestamps in        *)
(* whichever order); the body is the list of their ids.  Without the         *)
(* feed_type column the SELECT raises and the handler answers [].            *)
get_feeding_logs(p) ==
    /\ IF ~LogsHasFeedType
       THEN /\ p = <<>>
            /\ resp' = Response("get_feeding_logs", 200)
       ELSE /\ p \in Arrangements(logs)
            /\ \A i, j \in 1..Len(logs) : i < j => logs[p[i]].timestamp >= logs[p[j]].timestamp
            /\ resp' = [Response("get_feeding_logs", 200) EXCEPT
                            !.body = [k \in 1..(IF Len(logs) < LogsLimit THEN Len(logs) ELSE LogsLimit)
                                        |-> logs[p[k]].id]]
    /\ UNCHANGED <<schema, tz, now, feeders, adding, logs, next_log_id, daily_stats>>
    /\ UNCHANGED aux
    /\ device' = <<>>

RECURSIVE SumAmount(_)
SumAmount(rows) ==
    IF rows = <<>> THEN 0 ELSE rows[1].amount + SumAmount(Tail(rows))

get_daily_stats ==
    /\ LET ondate(r) == r.date = today
           dispensed(l) == DateOf(l.timestamp) = DateNowUTC /\ l.event_type \in CountableTypes
       IN  resp' = [Response("get_daily_stats", 200) EXCEPT
                       !.body = <<FirstTotal(SelectSeq(daily_stats, ondate)),
                                  SumAmount(SelectSeq(logs, dispensed))>>]
    /\ UNCHANGED <<schema, tz, now, feeders, adding, logs, next_log_id, daily_stats>>
    /\ UNCHANGED aux
    /\ device' = <<>>

(* A delete_log that also takes the deleted event out of its aggregate *)
delete_log_Rebalance(log_id) ==
    /\ LET keep(l) == l.id # log_id
       IN  logs' = SelectSeq(logs, keep)
    /\ daily_stats' = [k \in 1..Len(daily_stats) |->
            IF \E i \in 1..Len(logs) :
                   /\ logs[i].id = log_id
                   /\ logs[i].event_type \in CountableTypes
                   /\ DateOf(logs[i].timestamp) = daily_stats[k].date
            THEN [daily_stats[k] EXCEPT !.total_feedings = @ - 1]
            ELSE daily_stats[k]]
    /\ resp' = [Response("delete_log", 200) EXCEPT !.id = log_id]
    /\ UNCHANGED <<schema, tz, now, feeders, adding, next_log_id>>
    /\ UNCHANGED aux
    /\ device' = <<>>

delete_log(log_id) ==
    /\ LET keep(l) == l.id # log_id
       IN  logs' = SelectSeq(logs, keep)
    /\ resp' = [Response("delete_log", 200) EXCEPT !.id = log_id]
    /\ UNCHANGED <<schema, tz, now, feeders, adding, next_log_id, daily_stats>>
    /\ UNCHANGED aux
    /\ device' = <<>>

delete_all_logs ==
    /\ logs' = <<>>
    /\ resp' = Response("delete_all_logs", 200)
    /\ UNCHANGED <<schema, tz, now, feeders, adding, next_log_id, daily_stats>>
    /\ UNCHANGED aux
    /\ device' = <<>>

-----------------------------------------------------------------------------
(* upload_photo *)

CaptureTypes == {"1", "2"}

(* Lines 745-748 and 760/763: the stored path is built from the file name *)
ImagePath(feeding_id, capture_type) ==
    IF feeding_id # ""
    THEN <<"/static/uploads/", feeding_id, "_capture", capture_type, ".jpg">>
    ELSE <<"/static/uploads/", ToString(LocalNow), ".jpg">>

MaxId(rows) == IF rows = <<>> THEN NULL
               ELSE CHOOSE m \in {rows[i].id : i \in 1..Len(rows)} :
                        \A i \in 1..Len(rows) : rows[i].id <= m

(* An UPDATE whose WHERE clause ignores the feeding id *)
PhotoMatches_AnyRow(l, feeding_id) == TRUE

(* An UPDATE that takes the oldest row when no feeding id is given *)
PhotoMatches_Oldest(l, feeding_id) ==
    IF feeding_id # "" THEN l.feeding_id = feeding_id
    ELSE \A i \in 1..Len(logs) : l.id <= logs[i].id

(* Lines 758-763: which rows the UPDATE matches *)
PhotoMatches(l, feeding_id) ==
    IF feeding_id # "" THEN l.feeding_id = feeding_id ELSE l.id = MaxId(logs)

(* An upload_photo whose UPDATE also refreshes the timestamp of the row *)
upload_photo_Restamp(feeding_id, capture_type) ==
    /\ logs' = [i \in 1..Len(logs) |->
                   IF PhotoMatches(logs[i], feeding_id)
                   THEN [logs[i] EXCEPT !.image_path = ImagePath(feeding_id, capture_type),
                                        !.timestamp = LocalNow]
                   ELSE logs[i]]
    /\ resp' = Response("upload_photo", 200)
    /\ UNCHANGED <<schema, tz, now, feeders, adding, next_log_id, daily_stats>>
    /\ UNCHANGED aux
    /\ device' = <<>>

upload_photo(feeding_id, capture_type) ==
    /\ logs' = [i \in 1..Len(logs) |->
                   IF PhotoMatches(logs[i], feeding_id)
                   THEN [logs[i] EXCEPT !.image_path = ImagePath(feeding_id, capture_type)]
                   ELSE logs[i]]
    /\ resp' = Response("upload_photo", 200)
    /\ UNCHANGED <<schema, tz, now, feeders, adding, next_log_id, daily_stats>>
    /\ UNCHANGED aux
    /\ device' = <<>>

-----------------------------------------------------------------------------
(* set_schedule *)

(* Request bodies' time; <<>> is a missing field (None) *)
TimeInputs ==
    { <<"9", ":", "3", "0", " ", "A", "M">>,        \* "9:30 AM"
      <<"1", "2", ":", "0", "0", " ", "A", "M">>,   \* "12:00 AM"
      <<"1", "2", ":", "1", "5", "P", "M">>,        \* "12:15PM"
      <<"1", ":", "0", "0", " ", "P", "M">>,        \* "1:00 PM"
      <<"1", "3", ":", "0", "0", " ", "P", "M">>,   \* "13:00 PM"
      <<"9", ":", "7", "5", " ", "A", "M">>,        \* "9:75 AM"
      <<"9", ":", "3", "0">>,                       \* "9:30"
      <<>> }

(* The longest prefix of s that \d+ or \s* can take *)
RECURSIVE PrefixLen(_, _)
PrefixLen(s, chars) ==
    IF Len(s) > 0 /\ s[1] \in chars THEN 1 + PrefixLen(Tail(s), chars) ELSE 0

(* Lines 626-632: re.match(r'(\d+):(\d+)\s*(AM|PM)', time_str) and its groups *)
MatchTime(time_str) ==
    LET n1 == PrefixLen(time_str, Digits)
        r1 == SubSeq(time_str, n1 + 1, Len(time_str))
        r2 == IF r1 = <<>> THEN <<>> ELSE Tail(r1)
        n2 == PrefixLen(r2, Digits)
        r3 == SubSeq(r2, n2 + 1, Len(r2))
        r4 == SubSeq(r3, PrefixLen(r3, {" "}) + 1, Len(r3))
    IN  IF /\ n1 > 0
           /\ r1 # <<>> /\ r1[1] = ":"
           /\ n2 > 0
           /\ Len(r4) >= 2 /\ r4[1] \in {"A", "P"} /\ r4[2] = "M"
        THEN [matched |-> TRUE,
              hour |-> DigitsValue(SubSeq(time_str, 1, n1)),
              minute |-> DigitsValue(SubSeq(r2, 1, n2)),
              period |-> r4[1]]
        ELSE [matched |-> FALSE, hour |-> 0, minute |-> 0, period |-> "A"]

(* Lines 635-638: conversion to the 24-hour clock *)
Hour24(hour, period) ==
    IF period = "P" /\ hour # 12 THEN hour + 12
    ELSE IF period = "A" /\ hour = 12 THEN 0
    ELSE hour

set_schedule(feeder_id, time_str, outcome) ==
    /\ LET m == MatchTime(time_str)
       IN  IF time_str = <<>>
           THEN /\ resp' = Response("set_schedule", 500)
                /\ device' = <<>>
                /\ UNCHANGED schedules
           ELSE IF ~m.matched
           THEN /\ resp' = Response("set_schedule", 400)
                /\ device' = <<>>
                /\ UNCHANGED schedules
           ELSE IF ~HasFeedersTable
           THEN /\ resp' = Response("set_schedule", 500)
                /\ device' = <<>>
                /\ UNCHANGED schedules
           ELSE IF feeder_id \notin 1..Len(feeders)
           THEN /\ resp' = Response("set_schedule", 404)
                /\ device' = <<>>
                /\ UNCHANGED schedules
           ELSE /\ device' = <<DeviceRequest("set_schedule", feeder_id, outcome)>>
                /\ IF outcome = "200"
                   THEN /\ Len(schedules) < MaxSchedules
                        /\ schedules' = Append(schedules,
                               [feeder_id |-> feeder_id,
                                hour |-> Hour24(m.hour, m.period),
                                minute |-> m.minute])
                        /\ resp' = [Response("set_schedule", 200) EXCEPT !.id = feeder_id]
                   ELSE /\ resp' = [Response("set_schedule",
                                             IF outcome = "non200" THEN 500 ELSE 503)
                                       EXCEPT !.id = feeder_id]
                        /\ UNCHANGED schedules
    /\ UNCHANGED <<schema, tz, now, feeders, adding, logs, next_log_id, daily_stats>>
    /\ UNCHANGED <<captures, camera_trigger, cam, writer, tx, call>>

-----------------------------------------------------------------------------
(* The server's time zone; the tables after setup_database.py or init_db *)
TzOffsets == {0, 1}

Init ==
    /\ schema \in Schemas
    /\ tz \in TzOffsets
    /\ now = 0
    /\ feeders = <<>>
    /\ adding = [h \in Handlers |-> Idle]
    /\ logs = <<>>
    /\ next_log_id = 1
    /\ daily_stats = <<>>
    /\ resp = Response("none", 0)
    /\ device = <<>>
    /\ schedules = <<>>
    /\ captures = 0
    /\ camera_trigger = FALSE
    /\ cam = [h \in Handlers |-> FALSE]
    /\ writer = 0
    /\ tx = [h \in Handlers |-> NoTx]
    /\ call = [h \in Handlers |-> NoCall]

Next ==
    \/ \E h \in Handlers, has_name \in BOOLEAN, a \in AddrInputs : add_feeder_check(h, has_name, a)
    \/ \E h \in Handlers : add_feeder_insert(h)
    \/ \E f \in FeederIds : delete_feeder(f)
    \/ \E ip \in IpInputs : add_new_feeder(ip)
    \/ \E f \in FeederIds, ip \in IpInputs \cup {<<>>} : update_feeder_ip(f, ip)
    \/ \E outcome \in [1..Len(feeders) -> ProbeOutcomes] : get_feeders(outcome)
    \/ \E f \in FeederIds : update_feeder_status_call(f, TRUE)
    \/ \E f \in FeederIds : update_feeder_status_call(f, FALSE)
    \/ \E f \in FeederIds, a \in Amounts, o \in Outcomes, x \in StorageFaults :
           trigger_feeding_by_feeder(f, a, o, x)
    \/ \E a \in Amounts, o \in Outcomes, x \in StorageFaults : trigger_feeding(a, o, x)
    \/ \E e \in EventTypes, a \in Amounts, t \in FeedingIds, x \in StorageFaults :
           log_data(e, a, t, x)
    \/ get_daily_stats
    \/ \E l \in 1..MaxLogs : delete_log(l)
    \/ delete_all_logs
    \/ \E t \in FeedingIds, c \in CaptureTypes : upload_photo(t, c)
    \/ \E f \in FeederIds, t \in TimeInputs, o \in Outcomes : set_schedule(f, t, o)
    \/ \E o \in {"200", "timeout"} : trigger_camera_delayed(o)
    \/ \E p \in Arrangements(logs) \cup {<<>>} : get_feeding_logs(p)
    \/ \E h \in Handlers, op \in ConcurrentOps, e \in EventTypes : recording_start(h, op, e)
    \/ \E h \in Handlers : execute_insert(h)
    \/ \E h \in Handlers : database_is_locked(h)
    \/ \E h \in Handlers : execute_upsert(h)
    \/ \E h \in Handlers : commit(h)
    \/ set_trigger
    \/ \E h \in Handlers : trigger_camera_read(h)
    \/ \E h \in Handlers : trigger_camera_reset(h)
    \/ \E h \in Handlers, f \in FeederIds : handler_start(h, "trigger_feeding_by_feeder", f)
    \/ \E h \in Handlers : handler_start(h, "get_feeders", 0)
    \/ \E h \in Handlers, o \in {"200", "non200", "500"} : device_answer(h, o)
    \/ call_wait
    \/ \E h \in Handlers : call_timeout(h)
    \/ \E h \in Handlers : lock_acquire(h)
    \/ \E h \in Handlers : lock_timeout(h)
    \/ \E h \in Handlers : lock_commit(h)
    \/ Tick

Spec == Init /\ [][Next]_vars

(* The registry alone: registration, deactivation, the ip_management helpers *)
(* and the reachability reconciliation.                                       *)
NextRegistry ==
    \/ \E h \in Handlers, has_name \in BOOLEAN, a \in AddrInputs : add_feeder_check(h, has_name, a)
    \/ \E h \in Handlers : add_feeder_insert(h)
    \/ \E f \in FeederIds : delete_feeder(f)
    \/ \E ip \in IpInputs : add_new_feeder(ip)
    \/ \E f \in FeederIds, ip \in IpInputs \cup {<<>>} : update_feeder_ip(f, ip)
    \/ \E outcome \in [1..Len(feeders) -> {"200", "timeout"}] : get_feeders(outcome)
    \/ Tick

(* feeder.db as created by setup_database.py: the only one with a feeders table *)
InitSetup == Init /\ schema = "setup"

SpecRegistry == InitSetup /\ [][NextRegistry]_vars

(* The dispense paths, with feeders added by add_new_feeder and brought    *)
(* online by get_feeders.                                                  *)
NextDispense ==
    \/ add_new_feeder(Str_1_2_3_4)
    \/ \E outcome \in [1..Len(feeders) -> {"200", "timeout"}] : get_feeders(outcome)
    \/ \E f \in FeederIds, o \in Outcomes : trigger_feeding_by_feeder(f, 50, o, "none")
    \/ \E o \in Outcomes : trigger_feeding(50, o, "none")
    \/ Tick

SpecDispense == Init /\ [][NextDispense]_vars

(* Recording, deleting and totalling feeding events *)
NextStats ==
    \/ add_new_feeder(Str_1_2_3_4)
    \/ \E f \in FeederIds, a \in Amounts, o \in {"200", "non200"} :
           trigger_feeding_by_feeder(f, a, o, "none")
    \/ \E a \in Amounts, o \in {"200", "non200"} : trigger_feeding(a, o, "none")
    \/ \E e \in EventTypes, a \in Amounts : log_data(e, a, "", "none")
    \/ get_daily_stats
    \/ \E l \in 1..MaxLogs : delete_log(l)
    \/ delete_all_logs
    \/ Tick

SpecStats == Init /\ [][NextStats]_vars

(* Photo uploads against recorded events *)
NextPhoto ==
    \/ \E o \in Outcomes : trigger_feeding(50, o, "none")
    \/ \E e \in {"MANUAL_FEED", "UNKNOWN"}, t \in FeedingIds : log_data(e, 50, t, "none")
    \/ \E l \in 1..MaxLogs : delete_log(l)
    \/ \E t \in FeedingIds, c \in CaptureTypes : upload_photo(t, c)
    \/ Tick

SpecPhoto == Init /\ [][NextPhoto]_vars

(* Feeder modules marked online and offline *)
NextStatus ==
    \/ add_new_feeder(Str_1_2_3_4)
    \/ \E f \in FeederIds : update_feeder_status_call(f, TRUE)
    \/ \E f \in FeederIds : update_feeder_status_call(f, FALSE)
    \/ Tick

SpecStatus == InitSetup /\ [][NextStatus]_vars

(* The reachability probe under every outcome of its status request *)
NextProbe ==
    \/ add_new_feeder(Str_1_2_3_4)
    \/ \E f \in FeederIds : delete_feeder(f)
    \/ \E outcome \in [1..Len(feeders) -> ProbeOutcomes] : get_feeders(outcome)
    \/ Tick

SpecProbe == InitSetup /\ [][NextProbe]_vars

(* The log table under every kind of operation: recording, photo upload,    *)
(* deletion, totals, and the registry's reads and writes.                   *)
NextLedger ==
    \/ add_new_feeder(Str_1_2_3_4)
    \/ delete_feeder(1)
    \/ \E outcome \in [1..Len(feeders) -> {"200"}] : get_feeders(outcome)
    \/ update_feeder_status_call(1, FALSE)
    \/ \E o \in {"200", "transport"} : trigger_feeding_by_feeder(1, 50, o, "none")
    \/ log_data("MANUAL_FEED", 50, "abc123", "none")
    \/ \E t \in FeedingIds : upload_photo(t, "1")
    \/ get_daily_stats
    \/ delete_log(1)
    \/ delete_all_logs
    \/ Tick

SpecLedger == Init /\ [][NextLedger]_vars

(* Recording with a storage layer that may fail either write *)
NextAtomic ==
    \/ add_new_feeder(Str_1_2_3_4)
    \/ \E f \in FeederIds, x \in StorageFaults : trigger_feeding_by_feeder(f, 50, "200", x)
    \/ \E x \in StorageFaults : trigger_feeding(50, "200", x)
    \/ \E e \in {"MANUAL_FEED", "UNKNOWN"}, x \in StorageFaults : log_data(e, 50, "", x)
    \/ Tick

SpecAtomic == Init /\ [][NextAtomic]_vars

ScheduleTimes ==
    { <<"9", ":", "3", "0", " ", "A", "M">>,        \* "9:30 AM"
      <<"1", "3", ":", "0", "0", " ", "P", "M">>,   \* "13:00 PM"
      <<"9", ":", "7", "5", " ", "A", "M">>,        \* "9:75 AM"
      <<"9", ":", "3", "0">> }                      \* "9:30"

(* Schedules and feedings addressed to feeders that exist, were deleted or   *)
(* never existed.                                                           *)
NextSchedule ==
    \/ add_new_feeder(Str_1_2_3_4)
    \/ \E f \in FeederIds : delete_feeder(f)
    \/ \E f \in FeederIds, t \in ScheduleTimes, o \in {"200", "transport"} :
           set_schedule(f, t, o)
    \/ \E f \in FeederIds, o \in {"200", "transport"} :
           trigger_feeding_by_feeder(f, 50, o, "none")

SpecSchedule == InitSetup /\ [][NextSchedule]_vars

(* Dispensing followed by the delayed camera capture and the photo upload *)
NextCapture ==
    \/ add_new_feeder(Str_1_2_3_4)
    \/ \E f \in FeederIds, o \in {"200", "non200"} : trigger_feeding_by_feeder(f, 50, o, "none")
    \/ \E o \in {"200", "non200"} : trigger_feeding(50, o, "none")
    \/ \E o \in {"200", "timeout"} : trigger_camera_delayed(o)
    \/ upload_photo("", "1")

SpecCapture == Init /\ [][NextCapture]_vars

(* The list of recent events over a growing and shrinking log table *)
NextRecent ==
    \/ \E a \in Amounts : trigger_feeding(a, "200", "none")
    \/ \E e \in {"MANUAL_FEED", "UNKNOWN"} : log_data(e, 50, "", "none")
    \/ \E l \in 1..MaxLogs : delete_log(l)
    \/ \E p \in Arrangements(logs) \cup {<<>>} : get_feeding_logs(p)
    \/ Tick

SpecRecent == Init /\ [][NextRecent]_vars

(* Recording handlers in several threads of the server *)
NextConcurrent ==
    \/ \E h \in Handlers, op \in ConcurrentOps, e \in {"MANUAL_FEED", "UNKNOWN"} :
           recording_start(h, op, e)
    \/ \E h \in Handlers : execute_insert(h)
    \/ \E h \in Handlers : database_is_locked(h)
    \/ \E h \in Handlers : execute_upsert(h)
    \/ \E h \in Handlers : commit(h)
    \/ Tick

SpecConcurrent == Init /\ [][NextConcurrent]_vars

(* The camera trigger endpoints of gui.py in several threads *)
NextCamera ==
    \/ set_trigger
    \/ \E h \in Handlers : trigger_camera_read(h)
    \/ \E h \in Handlers : trigger_camera_reset(h)
    \/ Tick

SpecCamera == Init /\ [][NextCamera]_vars

(* The dispense (by one thread, on feeder 1 and on an id no feeder has) and *)
(* the feeder list (by another) as the blocking calls they make.  An        *)
(* answer of the device is never forced; time passes in every wait for a    *)
(* device, a wait that has lasted its timeout ends, a connection waiting    *)
(* for the write lock gets it or gives up, and a thread that holds the lock *)
(* runs on to its commit.                                                   *)
NextTimeout ==
    \/ add_new_feeder(Str_1_2_3_4)
    \/ \E f \in {1, MaxFeeders + 1} : handler_start(1, "trigger_feeding_by_feeder", f)
    \/ handler_start(2, "get_feeders", 0)
    \/ \E h \in Handlers, o \in {"200", "non200", "500"} : device_answer(h, o)
    \/ call_wait
    \/ \E h \in Handlers : call_timeout(h)
    \/ \E h \in Handlers : lock_acquire(h)
    \/ \E h \in Handlers : lock_timeout(h)
    \/ \E h \in Handlers : lock_commit(h)

SpecTimeout ==
    /\ InitSetup
    /\ [][NextTimeout]_vars
    /\ WF_vars(call_wait)
    /\ \A h \in Handlers :
           /\ WF_vars(call_timeout(h))
           /\ WF_vars(lock_acquire(h) \/ lock_timeout(h))
           /\ WF_vars(lock_commit(h))

(* Feeder modules fed and deactivated *)
NextDeactivate ==
    \/ add_new_feeder(Str_1_2_3_4)
    \/ \E f \in FeederIds : delete_feeder(f)
    \/ \E f \in FeederIds : trigger_feeding_by_feeder(f, 50, "200", "none")
    \/ Tick

SpecDeactivate == InitSetup /\ [][NextDeactivate]_vars

-----------------------------------------------------------------------------
(* Properties of the feeder registry *)

(* C1: in every reachable state no two feeder modules with is_active set     *)
(* share the same network address (esp32_ip and esp32_port).                 *)
C1_OneActivePerAddress ==
    \A i, j \in 1..Len(feeders) :
        (i # j /\ feeders[i].is_active /\ feeders[j].is_active)
            => <<feeders[i].esp32_ip, feeders[i].esp32_port>>
                   # <<feeders[j].esp32_ip, feeders[j].esp32_port>>

(* The address forms the registry contract names: "a.b.c.d" or "a.b.c.d:p",  *)
(* every octet a decimal number in 0..255, p a decimal number.               *)
WellFormedAddress(a) ==
    LET pieces == Split(a, ":")
        octets == Split(pieces[1], ".")
    IN  /\ Len(pieces) \in {1, 2}
        /\ Len(octets) = 4
        /\ \A k \in 1..4 : isdigit(octets[k]) /\ DigitsValue(octets[k]) <= 255
        /\ Len(pieces) = 2 => isdigit(pieces[2])
HostOf(a) == Split(a, ":")[1]
PortOf(a) == IF Len(Split(a, ":")) = 2 THEN DigitsValue(Split(a, ":")[2]) ELSE 80
ActiveAt(fs, host, port) ==
    \E i \in 1..Len(fs) : fs[i].is_active /\ fs[i].esp32_ip = host /\ fs[i].esp32_port = port

(* C2: register with a name and a well-formed address at which no active     *)
(* module is registered (host and port) succeeds: the request passes the     *)
(* duplicate check, and the insert that follows creates exactly one module   *)
(* with is_active set, is_online clear and the port given (80 when omitted), *)
(* and returns its id.                                                       *)
C2_RegisterSucceeds ==
    [][ /\ \A h \in Handlers, a \in AddrInputs :
              ( /\ add_feeder_check(h, TRUE, a)
                /\ WellFormedAddress(a)
                /\ ~ActiveAt(feeders, HostOf(a), PortOf(a)) )
              => ( /\ adding'[h] = [st |-> "checked", ip |-> HostOf(a), port |-> PortOf(a)]
                   /\ feeders' = feeders )
        /\ \A h \in Handlers :
              add_feeder_insert(h)
              => ( /\ Len(feeders') = Len(feeders) + 1
                   /\ SubSeq(feeders', 1, Len(feeders)) = feeders
                   /\ feeders'[Len(feeders')].is_active
                   /\ ~feeders'[Len(feeders')].is_online
                   /\ feeders'[Len(feeders')].esp32_ip = adding[h].ip
                   /\ feeders'[Len(feeders')].esp32_port = adding[h].port
                   /\ resp'.status = 200
                   /\ resp'.id = Len(feeders') )
      ]_vars

(* C3: register answers 400 (ValidationError), never 500, and leaves the     *)
(* feeders table unchanged, when the address is not a well-formed            *)
(* IPv4-literal[:port], when a required field is missing, or when an active  *)
(* module already claims the address.                                        *)
C3_RegisterRejects ==
    [][ \A h \in Handlers, has_name \in BOOLEAN, a \in AddrInputs :
            ( /\ add_feeder_check(h, has_name, a)
              /\ \/ ~has_name
                 \/ a = <<>>
                 \/ ~WellFormedAddress(a)
                 \/ WellFormedAddress(a) /\ ActiveAt(feeders, HostOf(a), PortOf(a)) )
            => ( /\ resp' = Response("add_feeder", 400)
                 /\ feeders' = feeders
                 /\ adding' = adding )
      ]_vars

(* What became of the status request a get_feeders step sent to each feeder, *)
(* read off the requests it made ("timeout" for a feeder it did not probe,   *)
(* whose outcome the handler never sees).                                    *)
ProbedOutcome(dev, f) ==
    IF \E k \in 1..Len(dev) : dev[k].feeder_id = f
    THEN dev[CHOOSE k \in 1..Len(dev) : dev[k].feeder_id = f].outcome
    ELSE "timeout"

OutcomesSent == [f \in 1..Len(feeders) |-> ProbedOutcome(device', f)]

(* The last handler to respond was the successful registration of feeder f *)
JustRegistered(f) ==
    resp.op = "add_feeder" /\ resp.status = 200 /\ resp.id = f

Listed(body, f, is_online) ==
    \E k \in 1..Len(body) : body[k] = [id |-> f, is_online |-> is_online]

LastStatusCall(f, is_online) ==
    resp.op = "update_feeder_status" /\ resp.id = f /\ resp.body = <<is_online>>

(* C11 (as claimed): update_feeder_status(f, True) followed by               *)
(* update_feeder_status(f, False) on an existing feeder leaves last_offline  *)
(* strictly greater than last_online, whether or not the clock advanced      *)
(* between the two calls.                                                    *)
C11_OfflineStrictlyLater ==
    [][ \A f \in 1..Len(feeders) :
            ( /\ LastStatusCall(f, TRUE)
              /\ resp'.op = "update_feeder_status"
              /\ update_feeder_status_call(f, FALSE) )
            => feeders'[f].last_offline > feeders'[f].last_online
      ]_vars

(* C11 (amended): after the two calls last_offline is set and is not older   *)
(* than last_online; the two are equal when the clock did not advance.       *)
C11_OfflineNotEarlier ==
    [][ \A f \in 1..Len(feeders) :
            ( /\ LastStatusCall(f, TRUE)
              /\ resp'.op = "update_feeder_status"
              /\ update_feeder_status_call(f, FALSE) )
            => ( /\ feeders'[f].last_offline # NULL
                 /\ feeders'[f].last_offline >= feeders'[f].last_online
                 /\ now' = now /\ feeders[f].last_online = LocalNow
                        => feeders'[f].last_offline = feeders'[f].last_online )
      ]_vars

(* A feeder was marked online and then offline within one tick of the clock  *)
(* (with tz = 1 only update_feeder_status can have stamped a last_online     *)
(* equal to the local time): both stamps are the same.                       *)
C11_Witness ==
    /\ tz = 1
    /\ \E f \in 1..Len(feeders) :
           /\ LastStatusCall(f, FALSE)
           /\ feeders[f].last_online = LocalNow
           /\ feeders[f].last_offline = LocalNow

(* C12: update_feeder_status(f, is_online) on an existing feeder sets        *)
(* is_online to the argument and stamps last_online (when online) or         *)
(* last_offline (when not) with the current time, leaving the other stamp,   *)
(* the other columns and the other rows as they were; on an id with no row   *)
(* it changes nothing; it never reports a failure.                           *)
C12_StampsExactlyOne ==
    [][ \A f \in FeederIds, is_online \in BOOLEAN :
            ( /\ resp'.op = "update_feeder_status"
              /\ update_feeder_status_call(f, is_online) )
            => ( /\ resp'.status = 0
                 /\ Len(feeders') = Len(feeders)
                 /\ \A g \in 1..Len(feeders) : g # f => feeders'[g] = feeders[g]
                 /\ f \in 1..Len(feeders) =>
                        /\ feeders'[f].is_online = is_online
                        /\ feeders'[f].is_active = feeders[f].is_active
                        /\ feeders'[f].esp32_ip = feeders[f].esp32_ip
                        /\ feeders'[f].esp32_port = feeders[f].esp32_port
                        /\ IF is_online
                           THEN /\ feeders'[f].last_online = LocalNow
                                /\ feeders'[f].last_offline = feeders[f].last_offline
                           ELSE /\ feeders'[f].last_offline = LocalNow
                                /\ feeders'[f].last_online = feeders[f].last_online )
      ]_vars

(* A feeder has been marked offline: its last_offline is the current time    *)
(* and its last_online is still the older stamp it had before the call.      *)
C12_Witness ==
    \E f \in 1..Len(feeders) :
        /\ LastStatusCall(f, FALSE)
        /\ ~feeders[f].is_online
        /\ feeders[f].last_offline = LocalNow
        /\ feeders[f].last_online < LocalNow

(* C13: delete_feeder(id) answers 404 and writes nothing when no row of      *)
(* feeders has that id; otherwise it clears is_active of that row only and   *)
(* answers 200, also when the row was inactive already; in both cases logs   *)
(* and daily_stats stay as they were.                                        *)
C13_DeactivateKeepsHistory ==
    [][ \A f \in FeederIds :
            ( resp'.op = "delete_feeder" /\ delete_feeder(f) )
            => ( /\ logs' = logs
                 /\ daily_stats' = daily_stats
                 /\ IF f \in 1..Len(feeders)
                    THEN /\ resp'.status = 200
                         /\ feeders' = [feeders EXCEPT ![f].is_active = FALSE]
                    ELSE /\ resp'.status = 404
                         /\ feeders' = feeders )
      ]_vars

(* A feeder with a recorded feeding and an aggregate has been deactivated    *)
(* (a second time, or after another feeder was): its log row and its         *)
(* aggregate are still there.                                                *)
C13_Witness ==
    /\ resp.op = "delete_feeder"
    /\ resp.status = 200
    /\ ~feeders[resp.id].is_active
    /\ \E i \in 1..Len(logs) : logs[i].feeder_id = resp.id
    /\ \E k \in 1..Len(daily_stats) :
           daily_stats[k].feeder_id = resp.id /\ daily_stats[k].total_feedings >= 1

C15_ProbeVerdict ==
    [][ ( resp'.op = "get_feeders" /\ get_feeders(OutcomesSent) )
        => ( /\ resp'.status = 200
             /\ Len(resp'.body) = Len(device')
             /\ \A k \in 1..Len(device') :
                    /\ resp'.body[k].id = device'[k].feeder_id
                    /\ resp'.body[k].is_online = (device'[k].outcome = "200") )
      ]_vars

(* One get_feeders probed two feeders: the device of one answered 404, the   *)
(* request to the other was refused; both are reported offline.              *)
C15_Witness ==
    /\ resp.op = "get_feeders"
    /\ Len(device) = 2
    /\ device[1].outcome = "404"
    /\ device[2].outcome = "refused"
    /\ ~resp.body[1].is_online
    /\ ~resp.body[2].is_online

-----------------------------------------------------------------------------
(* Properties of the event recorder *)

Countable(l) == l.event_type \in CountableTypes

(* No log row has been deleted: every id handed out is still in the table *)
NoDeletions == Len(logs) = next_log_id - 1

(* The countable events recorded for feeder f on date d *)
EventsOf(f, d) ==
    LET mine(l) == l.feeder_id = f /\ DateOf(l.timestamp) = d /\ Countable(l)
    IN  SelectSeq(logs, mine)

(* The stored aggregate of (f, d); where daily_stats has no feeder_id column  *)
(* the row of date d is the aggregate of every feeder.                       *)
AggregateOf(f, d) ==
    LET mine(r) == r.date = d /\ r.feeder_id \in {f, NULL}
    IN  FirstTotal(SelectSeq(daily_stats, mine))

Dates == 0..(DateOf(MaxTime + 1))

(* C4: with no deletions, after n >= 1 successful recordings of a countable  *)
(* kind for feeder f on date d, through whichever recording path, the        *)
(* aggregate of (f, d) is n; and get_daily_stats on date d, when f is the    *)
(* only feeder with events on d, returns count n and the sum of the n        *)
(* amounts.                                                                  *)
C4_AggregateIsCount ==
    NoDeletions =>
        \A f \in FeederIds, d \in Dates :
            EventsOf(f, d) # <<>> => AggregateOf(f, d) = Len(EventsOf(f, d))

C4_TotalsStep ==
    ( /\ resp'.op = "get_daily_stats"
      /\ get_daily_stats
      /\ NoDeletions )
    => \A f \in FeederIds :
          ( /\ EventsOf(f, today) # <<>>
            /\ \A g \in FeederIds \ {f} : EventsOf(g, today) = <<>> )
          => resp'.body = <<Len(EventsOf(f, today)), SumAmount(EventsOf(f, today))>>

(* C4: both parts together: the aggregate of (f, d) always equals the number *)
(* of countable events of (f, d), and every get_daily_stats step returns     *)
(* that count and the sum of the amounts.                                    *)
C4_CountAndTotals == []C4_AggregateIsCount /\ [][C4_TotalsStep]_vars

(* C5: log_data with an event kind outside MANUAL_FEED, SCHEDULED_FEED,      *)
(* BUTTON_FEED appends one row to logs and leaves daily_stats unchanged.     *)
C5_UncountedKindAppendsOnly ==
    [][ \A e \in EventTypes \ CountableTypes, a \in Amounts, t \in FeedingIds :
            ( resp'.op = "log_data" /\ log_data(e, a, t, "none") )
            => ( /\ Len(logs') = Len(logs) + 1
                 /\ SubSeq(logs', 1, Len(logs)) = logs
                 /\ logs'[Len(logs')].event_type = e
                 /\ daily_stats' = daily_stats )
      ]_vars

(* C6: delete_log(id) removes exactly the rows with that id, delete_all_logs *)
(* removes every row, and both leave daily_stats unchanged.                  *)
C6_DeleteKeepsAggregates ==
    [][ /\ \A l \in 1..MaxLogs :
              ( resp'.op = "delete_log" /\ delete_log(l) )
              => ( /\ daily_stats' = daily_stats
                   /\ \A k \in 1..Len(logs') : logs'[k].id # l
                   /\ \A k \in 1..Len(logs) : logs[k].id # l =>
                          \E m \in 1..Len(logs') : logs'[m] = logs[k]
                   /\ Len(logs') <= Len(logs) )
        /\ ( resp'.op = "delete_all_logs" /\ delete_all_logs )
              => ( daily_stats' = daily_stats /\ logs' = <<>> )
      ]_vars

(* Three countable events were recorded on one date, one of them has been    *)
(* deleted by delete_log, and the stored count of that date is still 3.      *)
C6_Witness ==
    /\ resp.op = "delete_log"
    /\ next_log_id = 4
    /\ Len(logs) = 2
    /\ \E k \in 1..Len(daily_stats) :
           /\ daily_stats[k].total_feedings = 3
           /\ \A i \in 1..Len(logs) :
                  Countable(logs[i]) /\ DateOf(logs[i].timestamp) = daily_stats[k].date

(* C7: a dispense command that ends in a non-200 answer or in a transport    *)
(* failure adds no log row, increments no aggregate and leaves the stored    *)
(* is_online of the targeted feeder clear, on both dispense paths (the       *)
(* target of trigger_feeding is feeder 1, whose address ESP32_IP is).        *)
C7_FailedDispense ==
    [][ /\ \A f \in FeederIds, o \in {"non200", "transport"} :
              ( /\ resp'.op = "trigger_feeding_by_feeder"
                /\ f \in ActiveIds(feeders)
                /\ \E a \in Amounts : trigger_feeding_by_feeder(f, a, o, "none") )
              => ( /\ logs' = logs
                   /\ daily_stats' = daily_stats
                   /\ ~feeders'[f].is_online )
        /\ \A o \in {"non200", "transport"} :
              ( /\ resp'.op = "trigger_feeding"
                /\ \E a \in Amounts : trigger_feeding(a, o, "none") )
              => ( /\ logs' = logs
                   /\ daily_stats' = daily_stats
                   /\ 1 \in 1..Len(feeders') => ~feeders'[1].is_online )
      ]_vars

(* A log row without its image reference *)
WithoutImage(l) == [l EXCEPT !.image_path = NULL_PATH]

(* C16: under every operation, a row of logs that exists before and after    *)
(* the step (same id) has kept every field other than image_path: a row      *)
(* changes only by a patch of its image_path or by its deletion.             *)
C16_RowsImmutable ==
    [][ \A i \in 1..Len(logs) :
            \A j \in 1..Len(logs') :
                logs'[j].id = logs[i].id => WithoutImage(logs'[j]) = WithoutImage(logs[i])
      ]_vars

(* upload_photo has patched the image_path of a row written at an earlier    *)
(* time, and the row still has the timestamp, amount and event type it was   *)
(* written with.                                                             *)
C16_Witness ==
    /\ resp.op = "upload_photo"
    /\ \E i \in 1..Len(logs) :
           /\ logs[i].image_path # NULL_PATH
           /\ logs[i].timestamp < LocalNow
           /\ logs[i].amount = 50
           /\ logs[i].event_type = "MANUAL_FEED"

RecordingOps == {"trigger_feeding_by_feeder", "trigger_feeding", "log_data"}

(* daily_stats after the upsert of the recording handler op for feeder f *)
Incremented(op, f) ==
    IF op = "trigger_feeding_by_feeder"
    THEN upsert_feeder_date(daily_stats, f, today)
    ELSE upsert_date(daily_stats, today)

(* C17: a recording handler, whether or not the storage layer fails one of   *)
(* its two writes, commits the new log row together with the upsert of       *)
(* daily_stats (countable kind) or commits nothing: no step leaves the new   *)
(* row without its increment or the increment without the row.               *)
C17_EventAndAggregateTogether ==
    [][ resp'.op \in RecordingOps
        => LET appended == /\ Len(logs') = Len(logs) + 1
                           /\ SubSeq(logs', 1, Len(logs)) = logs
               new == logs'[Len(logs')]
           IN  \/ logs' = logs /\ daily_stats' = daily_stats
               \/ /\ appended
                  /\ Countable(new)
                  /\ daily_stats' = Incremented(resp'.op, new.feeder_id)
               \/ /\ appended
                  /\ ~Countable(new)
                  /\ daily_stats' = daily_stats
      ]_vars

(* After one recorded feeding, a second dispense was answered 200 by the     *)
(* device and its recording failed in the storage layer: logs and            *)
(* daily_stats still hold the first event and its count alone.               *)
C17_Witness ==
    /\ resp.op \in RecordingOps
    /\ resp.status = 500
    /\ device # <<>>
    /\ device[1].outcome = "200"
    /\ Len(logs) = 1
    /\ Len(daily_stats) = 1
    /\ daily_stats[1].total_feedings = 1

(* C18: a handler sends the dispense command to the device of a feeder only  *)
(* after it has probed that feeder (get_status) in the same request and the  *)
(* probe was answered 200.                                                   *)
C18_ProbeBeforeDispense ==
    \A k \in 1..Len(device) :
        device[k].kind = "trigger_dispensing"
        => \E j \in 1..(k - 1) :
               /\ device[j].kind = "get_status"
               /\ device[j].feeder_id = device[k].feeder_id
               /\ device[j].outcome = "200"

(* The aggregate of (f, d) in the table ds *)
AggregateIn(ds, f, d) ==
    LET mine(r) == r.date = d /\ r.feeder_id \in {f, NULL}
    IN  FirstTotal(SelectSeq(ds, mine))

(* C19: daily_stats has at most one row per (feeder_id, date), and a         *)
(* recording handler that appends a countable row naming feeder f on date d  *)
(* raises the aggregate of (f, d) by one and leaves the aggregate of every   *)
(* other (feeder, date) as it was.                                           *)
C19_OneRowPerFeederDate ==
    \A i, j \in 1..Len(daily_stats) :
        ( /\ i # j
          /\ daily_stats[i].date = daily_stats[j].date )
        => daily_stats[i].feeder_id # daily_stats[j].feeder_id

C19_IncrementStep ==
    ( /\ resp'.op \in RecordingOps
      /\ Len(logs') = Len(logs) + 1
      /\ Countable(logs'[Len(logs')]) )
    => LET f == logs'[Len(logs')].feeder_id
           d == DateOf(logs'[Len(logs')].timestamp)
       IN  /\ AggregateIn(daily_stats', f, d) = AggregateIn(daily_stats, f, d) + 1
           /\ \A g \in FeederIds, e \in Dates :
                  <<g, e>> # <<f, d>>
                  => AggregateIn(daily_stats', g, e) = AggregateIn(daily_stats, g, e)

(* C19: both parts together: one row per (feeder_id, date) in every state,   *)
(* and every recording step increments the aggregate of the feeder and date  *)
(* of the row it appends, and no other.                                      *)
C19_KeyedByFeederAndDate == []C19_OneRowPerFeederDate /\ [][C19_IncrementStep]_vars

(* C20: get_daily_stats returns the stored count of the server-local date    *)
(* (the date the recording handlers count under) and the sum of the amounts  *)
(* of exactly the countable rows whose timestamp falls on that same date,    *)
(* also when the local date and the UTC date differ.                         *)
C20_CountAndSumSameDate ==
    [][ ( resp'.op = "get_daily_stats" /\ get_daily_stats )
        => LET ondate(r) == r.date = today
               sameday(l) == DateOf(l.timestamp) = today /\ Countable(l)
           IN  resp'.body = <<FirstTotal(SelectSeq(daily_stats, ondate)),
                              SumAmount(SelectSeq(logs, sameday))>>
      ]_vars

-----------------------------------------------------------------------------
(* Properties of the failure outcomes and of set_schedule *)

(* C21: a dispense command that ends in a transport failure or a non-200     *)
(* answer is reported with a status of its own (DeviceUnreachable), which is *)
(* none of 400 (ValidationError), 404 (NotFound), 500 (the generic failure,  *)
(* storage errors included) and 200.                                         *)
C21_DeviceUnreachableDistinct ==
    [][ /\ \A f \in FeederIds, o \in {"non200", "transport"} :
              ( /\ resp'.op = "trigger_feeding_by_feeder"
                /\ f \in ActiveIds(feeders)
                /\ \E a \in Amounts : trigger_feeding_by_feeder(f, a, o, "none") )
              => resp'.status \notin {200, 400, 404, 500}
        /\ \A o \in {"non200", "transport"} :
              ( /\ resp'.op = "trigger_feeding"
                /\ \E a \in Amounts : trigger_feeding(a, o, "none") )
              => resp'.status \notin {200, 400, 404, 500}
      ]_vars

(* C22: trigger_feeding_by_feeder on an id that has no row or whose row is   *)
(* deactivated answers 404, writes nothing and sends nothing to a device;    *)
(* set_schedule on an id whose row is deactivated does the same.             *)
C22_NotFoundForDeletedFeeder ==
    [][ /\ \A f \in FeederIds \ ActiveIds(feeders) :
              ( /\ resp'.op = "trigger_feeding_by_feeder"
                /\ \E a \in Amounts, o \in Outcomes : trigger_feeding_by_feeder(f, a, o, "none") )
              => ( /\ resp'.status = 404
                   /\ device' = <<>>
                   /\ UNCHANGED <<feeders, logs, daily_stats, schedules>> )
        /\ \A f \in 1..Len(feeders), t \in TimeInputs :
              ( /\ resp'.op = "set_schedule"
                /\ resp'.id = f
                /\ ~feeders[f].is_active
                /\ MatchTime(t).matched
                /\ \E o \in Outcomes : set_schedule(f, t, o) )
              => ( /\ resp'.status = 404
                   /\ device' = <<>>
                   /\ UNCHANGED <<feeders, logs, daily_stats, schedules>> )
      ]_vars

(* C23: every row of feeding_schedules has hour in 0..23 and minute in       *)
(* 0..59, whatever time string set_schedule accepted.                        *)
C23_ValidTimeOfDay ==
    \A k \in 1..Len(schedules) :
        /\ schedules[k].hour \in 0..23
        /\ schedules[k].minute \in 0..59

(* C24: on both dispense paths, a dispense command that the device answers  *)
(* with 200 gets its log row appended and its aggregate upserted and then    *)
(* exactly one delayed capture started; and the capture thread, whatever     *)
(* becomes of its request, leaves logs and daily_stats as they are.          *)
C24_ConfirmedThenPhotoPending ==
    [][ /\ \A f \in FeederIds :
              ( /\ resp'.op = "trigger_feeding_by_feeder"
                /\ f \in ActiveIds(feeders)
                /\ \E a \in Amounts : trigger_feeding_by_feeder(f, a, "200", "none") )
              => ( /\ Len(logs') = Len(logs) + 1
                   /\ daily_stats' = Incremented("trigger_feeding_by_feeder", f)
                   /\ captures' = captures + 1 )
        /\ ( /\ resp'.op = "trigger_feeding"
             /\ \E a \in Amounts : trigger_feeding(a, "200", "none") )
           => ( /\ Len(logs') = Len(logs) + 1
                /\ daily_stats' = Incremented("trigger_feeding", 1)
                /\ captures' = captures + 1 )
        /\ \A o \in {"200", "timeout"} :
              ( captures' # captures /\ trigger_camera_delayed(o) )
              => ( logs' = logs /\ daily_stats' = daily_stats )
      ]_vars

(* The row of logs with the given id *)
RowWithId(id) == logs[CHOOSE i \in 1..Len(logs) : logs[i].id = id]

(* C26: get_feeding_logs returns at most 100 rows of logs, each once, in     *)
(* descending timestamp order, and they are the rows with the greatest       *)
(* timestamps: all rows when there are at most 100, and no omitted row has   *)
(* a timestamp greater than that of a returned row.                          *)
C26_RecentLogs ==
    resp.op = "get_feeding_logs"
    => LET body == resp.body
           ids == {logs[i].id : i \in 1..Len(logs)}
           returned == {body[k] : k \in 1..Len(body)}
       IN  /\ Len(body) <= LogsLimit
           /\ Len(body) = IF Len(logs) < LogsLimit THEN Len(logs) ELSE LogsLimit
           /\ returned \subseteq ids
           /\ Cardinality(returned) = Len(body)
           /\ \A i, j \in 1..Len(body) :
                  i < j => RowWithId(body[i]).timestamp >= RowWithId(body[j]).timestamp
           /\ \A x \in ids \ returned, y \in returned :
                  RowWithId(x).timestamp <= RowWithId(y).timestamp

(* The connectivity fields of a feeder row *)
StatusOf(row) == <<row.is_online, row.last_online, row.last_offline>>

(* C27: the is_online, last_online and last_offline of a feeder change only  *)
(* in a step of get_feeders, of update_feeder_status itself, or of a         *)
(* dispense that failed to reach the device, and then to what                *)
(* update_feeder_status writes; delete_feeder, the recording handlers,       *)
(* upload_photo, the deletions, get_daily_stats and a successful dispense    *)
(* leave them as they were.                                                  *)
C27_StatusOnlyThroughUpdate ==
    [][ \A f \in 1..Len(feeders) :
            StatusOf(feeders'[f]) # StatusOf(feeders[f])
            => /\ \/ resp'.op \in {"get_feeders", "update_feeder_status"}
                  \/ resp'.op = "trigger_feeding_by_feeder" /\ resp'.status = 503
               /\ \E v \in BOOLEAN :
                      StatusOf(feeders'[f]) = StatusOf(update_feeder_status(feeders, f, v)[f])
      ]_vars

(* A feeder marked offline by a failed dispense has since been fed           *)
(* successfully and is still marked offline.                                 *)
C27_Witness ==
    /\ resp.op = "trigger_feeding_by_feeder"
    /\ resp.status = 200
    /\ resp.id \in 1..Len(feeders)
    /\ ~feeders[resp.id].is_online
    /\ feeders[resp.id].last_offline # NULL
    /\ \E i \in 1..Len(logs) : logs[i].feeder_id = resp.id

-----------------------------------------------------------------------------
(* Properties of concurrent recording *)

RECURSIVE SumTotals(_)
SumTotals(rows) ==
    IF rows = <<>> THEN 0 ELSE rows[1].total_feedings + SumTotals(Tail(rows))

CountableRows == {i \in 1..Len(logs) : logs[i].event_type \in CountableTypes}

(* C28: with recording handlers running concurrently, each writing its row   *)
(* of logs and its increment of daily_stats in one transaction on a store    *)
(* that admits one writer at a time, no increment is lost: the totals of     *)
(* daily_stats add up to the number of countable rows committed, there is    *)
(* one aggregate row per date, and a commit of a countable event raises the  *)
(* total of its date by exactly one.                                         *)
C28_NoLostIncrement ==
    /\ [](SumTotals(daily_stats) = Cardinality(CountableRows))
    /\ [](\A i, j \in 1..Len(daily_stats) : daily_stats[i].date = daily_stats[j].date => i = j)
    /\ [][ \A h \in Handlers :
               ( tx[h].st = "upserted" /\ tx'[h].st = "idle" /\ Len(logs') = Len(logs) + 1 )
               => LET ondate(r) == r.date = tx[h].date
                  IN  FirstTotal(SelectSeq(daily_stats', ondate))
                          = FirstTotal(SelectSeq(daily_stats, ondate)) + 1
        ]_vars

(* Two handlers recorded countable events of the same date while both were   *)
(* in progress (the row committed second carries the earlier timestamp),     *)
(* and the total of that date is 2.                                          *)
C28_Witness ==
    /\ Len(logs) = 2
    /\ logs[1].timestamp > logs[2].timestamp
    /\ DateOf(logs[1].timestamp) = DateOf(logs[2].timestamp)
    /\ CountableRows = {1, 2}
    /\ \E k \in 1..Len(daily_stats) :
           /\ daily_stats[k].date = DateOf(logs[1].timestamp)
           /\ daily_stats[k].total_feedings = 2

-----------------------------------------------------------------------------
(* Properties of the camera trigger flag *)

(* C29: a trigger_camera call returns "true" only when the flag is set at    *)
(* that moment, that is, only if a set_trigger happened since the last call  *)
(* that returned "true" (which cleared the flag): at most one call returns   *)
(* "true" per set_trigger, however the calls interleave.                     *)
C29_TestAndClear ==
    [][ \A h \in Handlers :
            ( /\ resp'.op = "trigger_camera"
              /\ resp'.body = <<"true">>
              /\ cam[h] /\ ~cam'[h] )
            => camera_trigger
      ]_vars

-----------------------------------------------------------------------------
(* Properties of the blocking calls *)

(* C25: every trigger_feeding_by_feeder and every get_feeders that has       *)
(* begun to wait, on a device or on the write lock held by another handler,  *)
(* eventually returns, whether or not the device ever answers; a dispense    *)
(* returns 200 (event recorded), 500 or 503 (failed); get_feeders returns    *)
(* its list.                                                                 *)
C25_EveryCallReturns ==
    /\ \A h \in Handlers : (call[h].st # "idle") ~> (call[h].st = "idle")
    /\ [][ \A h \in Handlers :
               ( call[h].st # "idle" /\ call'[h].st = "idle" )
               => /\ resp'.op = call[h].op
                  /\ resp'.status \in ( IF call[h].op = "get_feeders" THEN {200}
                                        ELSE {200, 500, 503} )
        ]_vars

(* A dispense whose device never answered has waited the whole timeout,      *)
(* marked the feeder offline and returned 503.                               *)
C25_Witness ==
    /\ resp.op = "trigger_feeding_by_feeder"
    /\ resp.status = 503
    /\ device = <<DeviceRequest("trigger_dispensing", resp.id, "timeout")>>
    /\ \A h \in Handlers : call[h].st = "idle"
    /\ ~feeders[resp.id].is_online
    /\ feeders[resp.id].last_offline # NULL

-----------------------------------------------------------------------------
(* Properties of upload_photo *)

(* C9: upload_photo with a non-empty feeding id t sets image_path of exactly *)
(* the rows whose feeding_id is t and changes no other row; when no row has  *)
(* feeding_id t nothing changes; the answer is 200 either way.               *)
C9_TokenPatchesOnlyMatching ==
    [][ \A t \in FeedingIds \ {""}, c \in CaptureTypes :
            ( resp'.op = "upload_photo" /\ upload_photo(t, c) )
            => ( /\ resp'.status = 200
                 /\ Len(logs') = Len(logs)
                 /\ \A i \in 1..Len(logs) :
                        IF logs[i].feeding_id = t
                        THEN logs'[i] = [logs[i] EXCEPT !.image_path = ImagePath(t, c)]
                        ELSE logs'[i] = logs[i] )
      ]_vars

(* upload_photo has patched a row with feeding id "abc123" and left a row    *)
(* with another feeding id without image.                                    *)
C9_Witness ==
    /\ resp.op = "upload_photo"
    /\ \E i, j \in 1..Len(logs), c \in CaptureTypes :
           /\ logs[i].feeding_id = "abc123"
           /\ logs[i].image_path = <<"/static/uploads/", "abc123", "_capture", c, ".jpg">>
           /\ logs[j].feeding_id # "abc123"
           /\ logs[j].image_path = NULL_PATH

(* C10: upload_photo without a feeding id sets image_path of exactly one     *)
(* row, the one with the highest id at the moment of the call, and of no     *)
(* other; on an empty table it changes nothing.                              *)
C10_NoTokenPatchesNewest ==
    [][ \A c \in CaptureTypes :
            ( resp'.op = "upload_photo" /\ upload_photo("", c) )
            => ( /\ Len(logs') = Len(logs)
                 /\ \A i \in 1..Len(logs) :
                        IF \A j \in 1..Len(logs) : logs[j].id <= logs[i].id
                        THEN logs'[i] = [logs[i] EXCEPT !.image_path = ImagePath("", c)]
                        ELSE logs'[i] = logs[i] )
      ]_vars

(* Feedings A then B were recorded, then a photo without feeding id arrived: *)
(* it is on B's row and A's row has none.                                    *)
C10_Witness ==
    /\ resp.op = "upload_photo"
    /\ Len(logs) = 2
    /\ logs[1].id < logs[2].id
    /\ logs[1].event_type = "MANUAL_FEED" /\ logs[2].event_type = "MANUAL_FEED"
    /\ logs[1].image_path = NULL_PATH
    /\ logs[2].image_path # NULL_PATH
    /\ Len(logs[2].image_path) = 3

====
